---------------------------- MODULE Spec2Model ----------------------------
(***************************************************************************)
(* Model of the ADT Pulse platform plugin (src/unnamed/part_001):          *)
(* the synchronize() timer callback, the keep-alive and sync-check         *)
(* sub-tasks, fetchUpdatedInformation(), unifyDevices() and                *)
(* pollAccessories() with the accessory cache.                             *)
(*                                                                         *)
(* JavaScript runs the callbacks on one event loop: a callback runs        *)
(* without interruption up to its next `await` of a portal call, of a      *)
(* detector or of sleep().  Every action below is one such run.  The       *)
(* invocations of a callback that are suspended at an await are kept in    *)
(* slots (ticks, kaTasks, scTasks), one record per invocation.             *)
(***************************************************************************)
EXTENDS Integers, Sequences, FiniteSets, TLC

(***************************************************************************)
(* Program constants (this.#constants, constructor).                       *)
(***************************************************************************)
adtKeepAlive == 538000
adtSyncCheck == 3000
suspendSyncing == 1800000
maxLoginRetries == 3

(***************************************************************************)
(* Bounds of the model.                                                    *)
(***************************************************************************)
\* invocations of the timer callback that may be suspended at the same time
MaxTicks == 2
\* invocations of each sub-task that may be suspended at the same time
MaxTasks == 2
\* times the clock is moved forward by ClockAdvance
MaxClockSteps == 1
\* the same, where the portal answers every request (RefreshSpec)
MaxRounds == 2
\* entries of registryLog after which no further direct call is made
\* (DevicesSpec)
MaxLog == 4
\* failure results the portal gives to login() over a run
MaxLoginFailures == 4

\* Date.now() at start: far later than every interval (epoch milliseconds).
StartTime == 2 * suspendSyncing

Ticks == 1..MaxTicks
Tasks == 1..MaxTasks

Null == <<>>
Some(x) == <<x>>
Unwrap(v) == v[1]

Max(a, b) == IF a >= b THEN a ELSE b

(***************************************************************************)
(* JSON.stringify and generateHash.  A serialisation is the sequence of    *)
(* the tokens of the JSON text; numbers are written as decimal strings.    *)
(***************************************************************************)
NumStr(n) ==
  <<"0", "1", "2", "3", "4", "5", "6", "7", "8", "9">>[n + 1]

RECURSIVE Flatten(_)
Flatten(seqs) ==
  IF seqs = <<>> THEN <<>> ELSE Head(seqs) \o Flatten(Tail(seqs))

StringifyPortalVersion(pv) ==
  <<"{", "version", pv.version, "}">>

StringifyGatewayInfo(info) ==
  <<"{", "manufacturer", info.manufacturer, "model", info.model,
    "serialNumber", info.serialNumber, "}">>

StringifyPanelInfo(info) ==
  <<"{", "manufacturerProvider", info.manufacturerProvider,
    "typeModel", info.typeModel, "}">>

StringifyPanelStatus(info) ==
  <<"{", "state", info.state, "status", info.status, "}">>

StringifySensorInfo(s) ==
  <<"{", "deviceId", NumStr(s.deviceId), "deviceType", s.deviceType,
    "name", s.name, "zone", NumStr(s.zone), "}">>

StringifySensorStatus(s) ==
  <<"{", "name", s.name, "status", s.status, "zone", NumStr(s.zone), "}">>

StringifySensorsInfo(sensors) ==
  <<"[">> \o Flatten([i \in 1..Len(sensors) |-> StringifySensorInfo(sensors[i])])
          \o <<"]">>

StringifySensorsStatus(sensors) ==
  <<"[">> \o Flatten([i \in 1..Len(sensors) |-> StringifySensorStatus(sensors[i])])
          \o <<"]">>

\* A digest of the text; two texts have the same digest iff they are equal.
generateHash(text) == [digest |-> text]

(***************************************************************************)
(* condenseSensorType: "sensor,doorWindow" -> "doorWindow".                *)
(***************************************************************************)
condenseSensorType(deviceType) ==
  CASE deviceType = "sensor,doorWindow" -> "doorWindow"
    [] deviceType = "sensor,motion" -> "motion"
    [] deviceType = "sensor,glass" -> "glass"
    [] OTHER -> deviceType

(***************************************************************************)
(* platformConfig (the zod schema) and safeParse.  A raw configuration is  *)
(* a record; speed is written in percent (1 -> 100, 0.75 -> 75, ...).      *)
(* z.object() keeps the keys of the schema only.                           *)
(***************************************************************************)
SensorTypes ==
  {"co", "doorWindow", "fire", "flood", "glass", "motion", "panic",
   "temperature"}

SensorConfigValid(s) ==
  /\ s.adtType \in SensorTypes
  /\ s.adtZone >= 1
  /\ s.adtZone <= 99

\* variant: safeParse accepts every configuration
platformConfigAny(raw) == TRUE

platformConfigValid(raw) ==
  /\ raw.platform = "ADTPulse"
  /\ raw.mode \in {"normal", "paused", "reset"}
  /\ raw.speed \in {100, 75, 50, 25}
  /\ Len(raw.sensors) >= 1
  /\ Len(raw.sensors) <= 148
  /\ \A i \in 1..Len(raw.sensors) : SensorConfigValid(raw.sensors[i])

\* parsedConfig.data: the keys the schema names
safeParseData(raw) ==
  [mode |-> raw.mode, speed |-> raw.speed, sensors |-> raw.sensors]

(***************************************************************************)
(* unifyDevices: the device list built from the data slots and the         *)
(* configured sensors.                                                     *)
(***************************************************************************)
DeviceId(n) == <<"adt-device", n>>
uuidGenerate(id) == <<"uuid">> \o id

GatewayDevice(gatewayInfo) ==
  [id |-> DeviceId(0), name |-> "ADT Pulse Gateway", type |-> "gateway",
   category |-> "BRIDGE", uuid |-> uuidGenerate(DeviceId(0)),
   manufacturer |-> gatewayInfo.manufacturer, model |-> gatewayInfo.model,
   serial |-> gatewayInfo.serialNumber, zone |-> 0]

PanelDevice(panelInfo) ==
  [id |-> DeviceId(1), name |-> "Security Panel", type |-> "panel",
   category |-> "SECURITY_SYSTEM", uuid |-> uuidGenerate(DeviceId(1)),
   manufacturer |-> panelInfo.manufacturerProvider,
   model |-> panelInfo.typeModel, serial |-> "", zone |-> 0]

\* variant: the zone is not compared
SensorMatchesAnyZone(sensorConfig, sensorInfo) ==
  /\ sensorConfig.adtName = sensorInfo.name
  /\ sensorConfig.adtType = condenseSensorType(sensorInfo.deviceType)

SensorMatches(sensorConfig, sensorInfo) ==
  /\ sensorConfig.adtName = sensorInfo.name
  /\ sensorConfig.adtType = condenseSensorType(sensorInfo.deviceType)
  /\ sensorConfig.adtZone = sensorInfo.zone

\* Array.prototype.find: the index of the first match, 0 when there is none
FindSensor(sensorsInfo, sensorConfig) ==
  LET hits == {i \in 1..Len(sensorsInfo) :
                 SensorMatches(sensorConfig, sensorsInfo[i])}
  IN IF hits = {} THEN 0 ELSE CHOOSE i \in hits : \A j \in hits : i <= j

SensorDevice(sensorConfig, sensor) ==
  [id |-> DeviceId(sensor.deviceId),
   name |-> IF sensorConfig.name = Null THEN sensorConfig.adtName
            ELSE Unwrap(sensorConfig.name),
   type |-> sensorConfig.adtType, category |-> "SENSOR",
   uuid |-> uuidGenerate(DeviceId(sensor.deviceId)),
   manufacturer |-> "ADT", model |-> sensor.deviceType, serial |-> "",
   zone |-> sensorConfig.adtZone]

\* variant: the loop ends at the first entry that is not found
RECURSIVE SensorDevicesBreak(_, _, _)
SensorDevicesBreak(sensorsConfig, sensorsInfo, i) ==
  IF i > Len(sensorsConfig) THEN <<>>
  ELSE LET found == FindSensor(sensorsInfo, sensorsConfig[i])
       IN IF found = 0 THEN <<>>
          ELSE <<SensorDevice(sensorsConfig[i], sensorsInfo[found])>>
               \o SensorDevicesBreak(sensorsConfig, sensorsInfo, i + 1)

\* variant: the id is made from the position of the configured entry
RECURSIVE SensorDevicesByPosition(_, _, _)
SensorDevicesByPosition(sensorsConfig, sensorsInfo, i) ==
  IF i > Len(sensorsConfig) THEN <<>>
  ELSE LET found == FindSensor(sensorsInfo, sensorsConfig[i])
       IN (IF found = 0 THEN <<>>
           ELSE <<[SensorDevice(sensorsConfig[i], sensorsInfo[found]) EXCEPT
                     !.id = DeviceId(i + 1),
                     !.uuid = uuidGenerate(DeviceId(i + 1))]>>)
          \o SensorDevicesByPosition(sensorsConfig, sensorsInfo, i + 1)

RECURSIVE SensorDevices(_, _, _)
SensorDevices(sensorsConfig, sensorsInfo, i) ==
  IF i > Len(sensorsConfig) THEN <<>>
  ELSE LET found == FindSensor(sensorsInfo, sensorsConfig[i])
       IN (IF found = 0 THEN <<>>
           ELSE <<SensorDevice(sensorsConfig[i], sensorsInfo[found])>>)
          \o SensorDevices(sensorsConfig, sensorsInfo, i + 1)

unifyDevices(dat, cfg) ==
  (IF dat.gatewayInfo # Null
   THEN <<GatewayDevice(Unwrap(dat.gatewayInfo))>> ELSE <<>>)
  \o (IF dat.panelInfo # Null
      THEN <<PanelDevice(Unwrap(dat.panelInfo))>> ELSE <<>>)
  \o (IF cfg # Null
      THEN SensorDevices(Unwrap(cfg).sensors, dat.sensorsInfo, 1) ELSE <<>>)

(***************************************************************************)
(* The accessory cache.  A registry is [accessories, handlers,             *)
(* registryLog]; an accessory is [context, displayName].  registryLog      *)
(* lists the calls made to the host (register, update, unregister) and     *)
(* the calls that were turned down (cannotAdd, cannotUpdate).              *)
(***************************************************************************)
\* Array.prototype.findIndex on the uuid: 0 when there is none
FindAccessory(accs, uuid) ==
  LET hits == {i \in 1..Len(accs) : accs[i].context.uuid = uuid}
  IN IF hits = {} THEN 0 ELSE CHOOSE i \in hits : \A j \in hits : i <= j

Logged(reg, op, uuid) ==
  [reg EXCEPT !.registryLog = Append(@, [op |-> op, uuid |-> uuid])]

\* variant: the accessory is added without looking for its uuid
addAccessoryAgain(reg, device) ==
  Logged([reg EXCEPT
            !.accessories =
              Append(@, [context |-> device, displayName |-> device.name]),
            !.handlers = @ \cup {device.id}],
         "register", device.uuid)

addAccessory(reg, device) ==
  IF FindAccessory(reg.accessories, device.uuid) > 0
  THEN Logged(reg, "cannotAdd", device.uuid)
  ELSE Logged([reg EXCEPT
                 !.accessories =
                   Append(@, [context |-> device, displayName |-> device.name]),
                 !.handlers = @ \cup {device.id}],
              "register", device.uuid)

updateAccessory(reg, device) ==
  LET index == FindAccessory(reg.accessories, device.uuid)
  IN IF index = 0 THEN Logged(reg, "cannotUpdate", device.uuid)
     ELSE Logged([reg EXCEPT
                    !.accessories[index] =
                      [context |-> device, displayName |-> device.name],
                    !.handlers = @ \cup {device.id}],
                 "update", device.uuid)

removeAccessory(reg, accessory) ==
  Logged([reg EXCEPT
            !.accessories =
              SelectSeq(@, LAMBDA a : a.context.uuid # accessory.context.uuid)],
         "unregister", accessory.context.uuid)

\* variant: every device of the list is added
RECURSIVE pollFromAdds(_, _, _)
pollFromAdds(reg, devs, i) ==
  IF i > Len(devs) THEN reg
  ELSE pollFromAdds(addAccessory(reg, devs[i]), devs, i + 1)

RECURSIVE pollFrom(_, _, _)
pollFrom(reg, devs, i) ==
  IF i > Len(devs) THEN reg
  ELSE pollFrom(
         IF FindAccessory(reg.accessories, devs[i].uuid) > 0
         THEN updateAccessory(reg, devs[i])
         ELSE addAccessory(reg, devs[i]),
         devs, i + 1)

\* variant: accessories that are not in the list are removed first
RECURSIVE pruneFrom(_, _, _)
pruneFrom(reg, devs, i) ==
  IF i < 1 THEN reg
  ELSE pruneFrom(IF reg.accessories[i].context.uuid \in
                      {devs[j].uuid : j \in 1..Len(devs)}
                 THEN reg ELSE removeAccessory(reg, reg.accessories[i]),
                 devs, i - 1)
pollAccessoriesPrunes(reg, devs) ==
  pollFrom(pruneFrom(reg, devs, Len(reg.accessories)), devs, 1)

\* variant: the uuid is looked for in the cache as it was before the pass
RECURSIVE snapshotFrom(_, _, _, _)
snapshotFrom(before, reg, devs, i) ==
  IF i > Len(devs) THEN reg
  ELSE snapshotFrom(
         before,
         IF FindAccessory(before.accessories, devs[i].uuid) > 0
         THEN updateAccessory(reg, devs[i])
         ELSE addAccessory(reg, devs[i]),
         devs, i + 1)
pollAccessoriesSnapshot(reg, devs) == snapshotFrom(reg, reg, devs, 1)

pollAccessories(reg, devs) == pollFrom(reg, devs, 1)

(***************************************************************************)
(* State.                                                                  *)
(***************************************************************************)
VARIABLES
  activity,        \* this.#state.activity: the four flags
  failedLogins,    \* this.#state.eventCounters.failedLogins
  lastRunOn,       \* this.#state.lastRunOn
  data,            \* this.#state.data, syncCode included
  reportedHashes,  \* this.#state.reportedHashes
  accessories,     \* this.#accessories
  handlers,        \* this.#handlers: the device ids that have a handler
  registryLog,     \* history: the calls to the host and the calls turned down
  rawConfig,       \* the config argument of the constructor
  config,          \* this.#config: Null, or Some(parsedConfig.data)
  instance,        \* this.#instance is not null
  interval,        \* this.#state.intervals.synchronize is set (timer runs)
  parsedConfig,    \* the constructor's parsedConfig.data (Null: not parsed)
  launch,          \* "none": no didFinishLaunching listener;
                   \* "waiting": listener registered; "done": it has run
  ticks,           \* invocations of the setInterval callback
  kaTasks,         \* invocations of synchronizeKeepAlive's async body
  scTasks,         \* invocations of synchronizeSyncCheck's async body
  authenticated,   \* what this.#instance.isAuthenticated() returns
  portalSyncCode,  \* the sync code the portal reports at present
  now,             \* what Date.now() returns
  clockSteps,      \* times ClockAdvance moved the clock
  inputs,          \* what the host, the portal and the detectors may answer
  loginFailures,   \* history: failure results login() has returned
  streak,          \* history: failed logins since the last success or cooldown
  detected,        \* history: the content hashes a detector was called for
  repeated,        \* history: those a detector was called for more than once
  devices          \* history: the list unifyDevices() built last

stateVars ==
  <<activity, failedLogins, lastRunOn, data, reportedHashes>>
registryVars == <<accessories, handlers, registryLog>>
startVars == <<rawConfig, config, instance, interval, parsedConfig, launch>>
taskVars == <<ticks, kaTasks, scTasks>>
envVars == <<authenticated, portalSyncCode, now, clockSteps, inputs>>
histVars == <<loginFailures, streak, detected, repeated, devices>>

vars ==
  <<stateVars, registryVars, startVars, taskVars, envVars, histVars>>

(***************************************************************************)
(* Slots of suspended invocations.  An invocation waits at pc for the      *)
(* promise it awaits; answer is Null until that promise settles, then      *)
(* Some([outcome, payload]), and the invocation resumes in a later step.   *)
(***************************************************************************)
Answer(outcome, payload) == [outcome |-> outcome, payload |-> payload]

IdleTick ==
  [pc |-> "idle", answer |-> Null, portalVersion |-> Null, wake |-> 0]
IdleTask == [pc |-> "idle", answer |-> Null]
IdleCheck == [pc |-> "idle", answer |-> Null, step |-> 0, requests |-> <<>>]

Waiting(slot, pc) == slot.pc = pc /\ slot.answer = Null
Settled(slot, pc) == slot.pc = pc /\ slot.answer # Null

\* the lowest free slot, 0 when every slot is taken
FreeTick ==
  LET free == {t \in Ticks : ticks[t].pc = "idle"}
  IN IF free = {} THEN 0 ELSE CHOOSE t \in free : \A u \in free : t <= u

FreeKeepAlive ==
  LET free == {k \in Tasks : kaTasks[k].pc = "idle"}
  IN IF free = {} THEN 0 ELSE CHOOSE k \in free : \A u \in free : k <= u

FreeSyncCheck ==
  LET free == {k \in Tasks : scTasks[k].pc = "idle"}
  IN IF free = {} THEN 0 ELSE CHOOSE k \in free : \A u \in free : k <= u

(***************************************************************************)
(* The guards of the four activities.                                      *)
(***************************************************************************)
\* variant: the callback never sees the flag set
SyncBusyNever(act) == FALSE
SyncBusy(act) == act.isSyncing
LoginBusy(act) == act.isLoggingIn
\* variant: the keep-alive body never sees its flag set
KeepAliveBusyNever(act) == FALSE
KeepAliveBusy(act) == act.isAdtKeepingAlive
\* variant: the sync-check body never sees its flag set
SyncCheckBusyNever(act) == FALSE
SyncCheckBusy(act) == act.isAdtSyncChecking

(***************************************************************************)
(* Init: the state the constructor leaves, for a raw configuration the     *)
(* host supplies.                                                          *)
(***************************************************************************)
InitWith(in) ==
  /\ inputs = in
  /\ activity = [isAdtKeepingAlive |-> FALSE, isAdtSyncChecking |-> FALSE,
                 isLoggingIn |-> FALSE, isSyncing |-> FALSE]
  /\ failedLogins = 0
  /\ lastRunOn = [adtKeepAlive |-> 0, adtSyncCheck |-> 0]
  /\ data = [gatewayInfo |-> Null, panelInfo |-> Null, panelStatus |-> Null,
             sensorsInfo |-> <<>>, sensorsStatus |-> <<>>,
             syncCode |-> "1-0-0"]
  /\ reportedHashes = {}
  /\ accessories = <<>>
  /\ handlers = {}
  /\ registryLog = <<>>
  /\ config = Null
  /\ instance = FALSE
  /\ interval = FALSE
  /\ rawConfig \in in.rawConfigs
  /\ IF platformConfigValid(rawConfig)
     THEN parsedConfig = Some(safeParseData(rawConfig)) /\ launch = "waiting"
     ELSE parsedConfig = Null /\ launch = "none"
  /\ ticks = [t \in Ticks |-> IdleTick]
  /\ kaTasks = [k \in Tasks |-> IdleTask]
  /\ scTasks = [k \in Tasks |-> IdleCheck]
  /\ authenticated = FALSE
  /\ portalSyncCode \in in.syncCodes
  /\ now = StartTime
  /\ clockSteps = 0
  /\ loginFailures = 0
  /\ streak = 0
  /\ detected = {}
  /\ repeated = {}
  /\ devices = <<>>

(***************************************************************************)
(* configureAccessory: the host restores the cached accessories, in        *)
(* order, before it emits didFinishLaunching.                              *)
(***************************************************************************)
configureAccessory ==
  /\ launch # "done"
  /\ Len(accessories) < Len(inputs.cached)
  /\ accessories' = Append(accessories, inputs.cached[Len(accessories) + 1])
  /\ UNCHANGED <<stateVars, handlers, registryLog, startVars, taskVars,
                 envVars, histVars>>

(***************************************************************************)
(* The didFinishLaunching listener of the constructor.                     *)
(***************************************************************************)
\* obj[key] === true of JavaScript (undefined for a key the object lacks)
IsTrue(obj, key) == key \in DOMAIN obj /\ obj[key] = TRUE

RECURSIVE removeAll(_, _)
removeAll(reg, i) ==
  IF i < 1 THEN reg
  ELSE removeAll(removeAccessory(reg, reg.accessories[i]), i - 1)

didFinishLaunching ==
  /\ launch = "waiting"
  /\ Len(accessories) = Len(inputs.cached)
  /\ launch' = "done"
  /\ config' = parsedConfig
  /\ instance' = TRUE
  /\ LET reg == [accessories |-> accessories, handlers |-> handlers,
                 registryLog |-> registryLog]
         cleared == removeAll(reg, Len(accessories))
     IN IF IsTrue(Unwrap(parsedConfig), "pause")
        THEN UNCHANGED <<interval, registryVars>>
        ELSE IF IsTrue(Unwrap(parsedConfig), "reset")
        THEN /\ accessories' = cleared.accessories
             /\ handlers' = cleared.handlers
             /\ registryLog' = cleared.registryLog
             /\ UNCHANGED interval
        ELSE /\ interval' = TRUE
             /\ UNCHANGED registryVars
  /\ UNCHANGED <<stateVars, rawConfig, parsedConfig, taskVars, envVars,
                 histVars>>

(***************************************************************************)
(* synchronize(): the setInterval callback.                                *)
(***************************************************************************)
\* variant: no hash is ever found in the list
ReportedNever(hashes, contentHash) == FALSE

\* lines 490, 715, 735, 755, 775, 795: reportedHashes.find(...) !== undefined
Reported(hashes, contentHash) == contentHash \in hashes

\* variant: the hash is saved whatever the detector returned
SavedAlways(hashes, contentHash, result) == hashes \cup {contentHash}

\* lines 494-496, 719-721, ...: if (detectedNew) reportedHashes.push(contentHash)
Saved(hashes, contentHash, result) ==
  IF result = "new" THEN hashes \cup {contentHash} ELSE hashes

\* history of a detector call for content hash h
DetectorCalled(h) ==
  /\ detected' = detected \cup {h}
  /\ repeated' = IF h \in detected THEN repeated \cup {h} ELSE repeated

\* variant: a sub-task is started only while the other one is not running
TickTailOneAtATime(t, act, lro) ==
  LET kaGo == /\ now - lro.adtKeepAlive >= adtKeepAlive
              /\ ~KeepAliveBusy(act)
              /\ ~SyncCheckBusy(act)
              /\ instance
              /\ FreeKeepAlive # 0
      scGo == /\ now - lro.adtSyncCheck >= adtSyncCheck
              /\ ~SyncCheckBusy(act)
              /\ ~KeepAliveBusy(act)
              /\ ~kaGo
              /\ instance
              /\ FreeSyncCheck # 0
  IN /\ kaTasks' = IF kaGo
                   THEN [kaTasks EXCEPT ![FreeKeepAlive] =
                           [pc |-> "keepAlive", answer |-> Null]]
                   ELSE kaTasks
     /\ scTasks' = IF scGo
                   THEN [scTasks EXCEPT ![FreeSyncCheck] =
                           [pc |-> "syncCheck", answer |-> Null, step |-> 0,
                            requests |-> <<>>]]
                   ELSE scTasks
     /\ activity' = [act EXCEPT
                       !.isAdtKeepingAlive = IF kaGo THEN TRUE ELSE @,
                       !.isAdtSyncChecking = IF scGo THEN TRUE ELSE @,
                       !.isSyncing = FALSE]
     /\ ticks' = [ticks EXCEPT ![t] = IdleTick]

\* lines 537-548 and the finally block: kick off the sub-tasks that are due;
\* each runs up to its first await (synchronizeKeepAlive, synchronizeSyncCheck)
TickTail(t, act, lro) ==
  LET kaGo == /\ now - lro.adtKeepAlive >= adtKeepAlive
              /\ ~KeepAliveBusy(act)
              /\ instance
              /\ FreeKeepAlive # 0
      scGo == /\ now - lro.adtSyncCheck >= adtSyncCheck
              /\ ~SyncCheckBusy(act)
              /\ instance
              /\ FreeSyncCheck # 0
  IN /\ kaTasks' = IF kaGo
                   THEN [kaTasks EXCEPT ![FreeKeepAlive] =
                           [pc |-> "keepAlive", answer |-> Null]]
                   ELSE kaTasks
     /\ scTasks' = IF scGo
                   THEN [scTasks EXCEPT ![FreeSyncCheck] =
                           [pc |-> "syncCheck", answer |-> Null, step |-> 0,
                            requests |-> <<>>]]
                   ELSE scTasks
     /\ activity' = [act EXCEPT
                       !.isAdtKeepingAlive = IF kaGo THEN TRUE ELSE @,
                       !.isAdtSyncChecking = IF scGo THEN TRUE ELSE @,
                       !.isSyncing = FALSE]
     /\ ticks' = [ticks EXCEPT ![t] = IdleTick]

\* variant: a return that leaves isSyncing as it is
TickReturnKeeps(t, act) ==
  /\ activity' = act
  /\ ticks' = [ticks EXCEPT ![t] = IdleTick]
  /\ UNCHANGED <<kaTasks, scTasks>>

\* a return or a caught error inside the try block: the finally block only
TickReturn(t, act) ==
  /\ activity' = [act EXCEPT !.isSyncing = FALSE]
  /\ ticks' = [ticks EXCEPT ![t] = IdleTick]
  /\ UNCHANGED <<kaTasks, scTasks>>

\* variant: the cooldown starts one failure later
CooldownDueLate(fl) == fl > maxLoginRetries

\* lines 521-529: the cooldown is due
CooldownDue(fl) == fl >= maxLoginRetries

\* variant: the callback goes on without asking isAuthenticated() again
AfterLoginUnchecked(t, act, fl, lro) ==
  /\ lastRunOn' = lro
  /\ IF CooldownDue(fl)
     THEN /\ ticks' = [ticks EXCEPT ![t] =
                         [pc |-> "sleep", answer |-> Null,
                          portalVersion |-> Null,
                          wake |-> now + suspendSyncing]]
          /\ activity' = act
          /\ UNCHANGED <<kaTasks, scTasks>>
     ELSE TickTail(t, act, lro)

\* variant: the cooldown is slept through with isSyncing cleared
AfterLoginSleepsUnguarded(t, act, fl, lro) ==
  /\ lastRunOn' = lro
  /\ IF CooldownDue(fl)
     THEN /\ ticks' = [ticks EXCEPT ![t] =
                         [pc |-> "sleep", answer |-> Null,
                          portalVersion |-> Null,
                          wake |-> now + suspendSyncing]]
          /\ activity' = [act EXCEPT !.isSyncing = FALSE]
          /\ UNCHANGED <<kaTasks, scTasks>>
     ELSE IF ~authenticated
     THEN TickReturn(t, act)
     ELSE TickTail(t, act, lro)

\* lines 521-548: after the login block
AfterLogin(t, act, fl, lro) ==
  /\ lastRunOn' = lro
  /\ IF CooldownDue(fl)
     THEN /\ ticks' = [ticks EXCEPT ![t] =
                         [pc |-> "sleep", answer |-> Null,
                          portalVersion |-> Null,
                          wake |-> now + suspendSyncing]]
          /\ activity' = act
          /\ UNCHANGED <<kaTasks, scTasks>>
     ELSE IF ~authenticated
     THEN TickReturn(t, act)
     ELSE TickTail(t, act, lro)

\* the timer fires: lines 451-475, and on from line 521 when no login is made
TickFire ==
  /\ interval
  /\ UNCHANGED <<failedLogins, data, reportedHashes, registryVars, startVars,
                 envVars, loginFailures, streak, detected, repeated, devices>>
  /\ IF SyncBusy(activity)
     THEN UNCHANGED <<activity, lastRunOn, taskVars>>
     ELSE IF ~instance \/ FreeTick = 0
     THEN UNCHANGED <<activity, lastRunOn, taskVars>>
     ELSE LET t == FreeTick
              act == [activity EXCEPT !.isSyncing = TRUE]
          IN IF ~authenticated
             THEN IF ~LoginBusy(act)
                  THEN /\ activity' = [act EXCEPT !.isLoggingIn = TRUE]
                       /\ ticks' = [ticks EXCEPT ![t] =
                                      [pc |-> "login", answer |-> Null,
                                       portalVersion |-> Null, wake |-> 0]]
                       /\ UNCHANGED <<lastRunOn, kaTasks, scTasks>>
                  ELSE AfterLogin(t, act, failedLogins, lastRunOn)
             ELSE /\ lastRunOn' = lastRunOn
                  /\ TickTail(t, act, lastRunOn)

\* variant: a successful login leaves the stamps as they are
LoginStampNone(lro, timestamp) == lro

\* lines 481-485: both stamps become the time of the login
LoginStamp(lro, timestamp) ==
  [lro EXCEPT !.adtKeepAlive = timestamp, !.adtSyncCheck = timestamp]

\* login() resumes the callback: lines 475-535
LoginResume(t) ==
  /\ Settled(ticks[t], "login")
  /\ UNCHANGED <<data, registryVars, startVars, envVars, loginFailures,
                 devices>>
  /\ LET answer == Unwrap(ticks[t].answer)
     IN CASE answer.outcome = "success" ->
               LET portalVersion == Unwrap(answer.payload)
                   lro == LoginStamp(lastRunOn, now)
                   contentHash ==
                     generateHash(StringifyPortalVersion(portalVersion))
               IN /\ streak' = 0
                  /\ UNCHANGED <<failedLogins, reportedHashes>>
                  /\ IF ~Reported(reportedHashes, contentHash)
                     THEN /\ ticks' = [ticks EXCEPT ![t] =
                                         [pc |-> "detect", answer |-> Null,
                                          portalVersion |-> Some(portalVersion),
                                          wake |-> 0]]
                          /\ DetectorCalled(contentHash)
                          /\ lastRunOn' = lro
                          /\ UNCHANGED <<activity, kaTasks, scTasks>>
                     ELSE /\ UNCHANGED <<detected, repeated>>
                          /\ AfterLogin(t,
                                        [activity EXCEPT !.isLoggingIn = FALSE],
                                        failedLogins, lro)
          [] answer.outcome = "failure" ->
               /\ streak' = streak + 1
               /\ failedLogins' = failedLogins + 1
               /\ UNCHANGED <<reportedHashes, detected, repeated>>
               /\ AfterLogin(t, [activity EXCEPT !.isLoggingIn = FALSE],
                             failedLogins + 1, lastRunOn)
          [] answer.outcome = "throw" ->
               /\ UNCHANGED <<failedLogins, lastRunOn, reportedHashes, streak,
                              detected, repeated>>
               /\ TickReturn(t, activity)

\* detectedNewPortalVersion() resumes the callback: lines 491-535
LoginDetectResume(t) ==
  /\ Settled(ticks[t], "detect")
  /\ UNCHANGED <<failedLogins, data, registryVars, startVars, envVars,
                 histVars>>
  /\ LET result == Unwrap(ticks[t].answer).outcome
         contentHash ==
           generateHash(StringifyPortalVersion(Unwrap(ticks[t].portalVersion)))
     IN IF result = "throw"
        THEN /\ UNCHANGED <<lastRunOn, reportedHashes>>
             /\ TickReturn(t, activity)
        ELSE /\ reportedHashes' = Saved(reportedHashes, contentHash, result)
             /\ AfterLogin(t, [activity EXCEPT !.isLoggingIn = FALSE],
                           failedLogins, lastRunOn)

\* variant: the cooldown ends without a reset of the counter
SleepResumeKeeps(t) ==
  /\ Settled(ticks[t], "sleep")
  /\ streak' = 0
  /\ TickReturn(t, activity)
  /\ UNCHANGED <<failedLogins, lastRunOn, data, reportedHashes, registryVars,
                 startVars, envVars, loginFailures, detected, repeated,
                 devices>>

\* sleep(suspendSyncing) resumes the callback: lines 523-528
SleepResume(t) ==
  /\ Settled(ticks[t], "sleep")
  /\ failedLogins' = 0
  /\ streak' = 0
  /\ TickReturn(t, activity)
  /\ UNCHANGED <<lastRunOn, data, reportedHashes, registryVars, startVars,
                 envVars, loginFailures, detected, repeated, devices>>

(***************************************************************************)
(* synchronizeKeepAlive(): performKeepAlive() resumes it, lines 588-609.   *)
(***************************************************************************)
\* variant: a rejected performKeepAlive() leaves the flag set
KeepAliveResumeKeeps(k) ==
  /\ Settled(kaTasks[k], "keepAlive")
  /\ kaTasks' = [kaTasks EXCEPT ![k] = IdleTask]
  /\ lastRunOn' = IF Unwrap(kaTasks[k].answer).outcome = "throw" THEN lastRunOn
                  ELSE [lastRunOn EXCEPT !.adtKeepAlive = now]
  /\ activity' = IF Unwrap(kaTasks[k].answer).outcome = "throw" THEN activity
                 ELSE [activity EXCEPT !.isAdtKeepingAlive = FALSE]
  /\ UNCHANGED <<failedLogins, data, reportedHashes, registryVars, startVars,
                 ticks, scTasks, envVars, histVars>>

KeepAliveResume(k) ==
  /\ Settled(kaTasks[k], "keepAlive")
  /\ kaTasks' = [kaTasks EXCEPT ![k] = IdleTask]
  /\ lastRunOn' = IF Unwrap(kaTasks[k].answer).outcome = "throw" THEN lastRunOn
                  ELSE [lastRunOn EXCEPT !.adtKeepAlive = now]
  /\ activity' = [activity EXCEPT !.isAdtKeepingAlive = FALSE]
  /\ UNCHANGED <<failedLogins, data, reportedHashes, registryVars, startVars,
                 ticks, scTasks, envVars, histVars>>

(***************************************************************************)
(* synchronizeSyncCheck() and fetchUpdatedInformation().                   *)
(***************************************************************************)
Slots ==
  <<"gatewayInfo", "panelInfo", "panelStatus", "sensorsInfo", "sensorsStatus">>

\* JSON.stringify(...) of the payload of request k
SlotText(k, payload) ==
  CASE k = 1 -> StringifyGatewayInfo(payload)
    [] k = 2 -> StringifyPanelInfo(payload)
    [] k = 3 -> StringifyPanelStatus(payload)
    [] k = 4 -> StringifySensorsInfo(payload)
    [] k = 5 -> StringifySensorsStatus(payload)

\* variant: the hash is made from the name of the slot and the text
SlotHashKeyed(k, payload) ==
  generateHash(<<Slots[k]>> \o SlotText(k, payload))

\* generateHash(JSON.stringify(...)) of the payload of request k
SlotHash(k, payload) == generateHash(SlotText(k, payload))

\* the value stored in the data slot of request k
SlotValue(k, payload) == IF k <= 3 THEN Some(payload) ELSE payload

\* variant: the slot of a request that failed is emptied
RECURSIVE AbsorbClears(_, _, _, _)
AbsorbClears(dat, hashes, requests, k) ==
  IF k > 5 THEN [data |-> dat, step |-> 6]
  ELSE IF ~requests[k].success
  THEN AbsorbClears([dat EXCEPT ![Slots[k]] = IF k <= 3 THEN Null ELSE <<>>],
                    hashes, requests, k + 1)
  ELSE LET payload == Unwrap(requests[k].info)
           stored == [dat EXCEPT ![Slots[k]] = SlotValue(k, payload)]
       IN IF Reported(hashes, SlotHash(k, payload))
          THEN AbsorbClears(stored, hashes, requests, k + 1)
          ELSE [data |-> stored, step |-> k]

\* lines 705-803 from request k on, up to the next detector that is awaited
\* (step = k) or to the end of the five blocks (step = 6)
RECURSIVE Absorb(_, _, _, _)
Absorb(dat, hashes, requests, k) ==
  IF k > 5 THEN [data |-> dat, step |-> 6]
  ELSE IF ~requests[k].success THEN Absorb(dat, hashes, requests, k + 1)
  ELSE LET payload == Unwrap(requests[k].info)
           stored == [dat EXCEPT ![Slots[k]] = SlotValue(k, payload)]
       IN IF Reported(hashes, SlotHash(k, payload))
          THEN Absorb(stored, hashes, requests, k + 1)
          ELSE [data |-> stored, step |-> k]

\* lines 666-674: the timestamp and the finally block of the sync check
SyncCheckEnd(s, stamp) ==
  /\ lastRunOn' = IF stamp THEN [lastRunOn EXCEPT !.adtSyncCheck = now]
                  ELSE lastRunOn
  /\ activity' = [activity EXCEPT !.isAdtSyncChecking = FALSE]
  /\ scTasks' = [scTasks EXCEPT ![s] = IdleCheck]

\* lines 805-810, 822-935: unifyDevices() and pollAccessories()
Reconcile(dat) ==
  LET devs == unifyDevices(dat, config)
      reg == pollAccessories(
               [accessories |-> accessories, handlers |-> handlers,
                registryLog |-> registryLog], devs)
  IN /\ devices' = devs
     /\ accessories' = reg.accessories
     /\ handlers' = reg.handlers
     /\ registryLog' = reg.registryLog

\* lines 705-810 from request k on, with the rest of the sync check
Refresh(s, dat, hashes, requests, k) ==
  LET r == Absorb(dat, hashes, requests, k)
  IN /\ data' = r.data
     /\ IF r.step = 6
        THEN /\ Reconcile(r.data)
             /\ SyncCheckEnd(s, TRUE)
             /\ UNCHANGED <<detected, repeated>>
        ELSE /\ scTasks' = [scTasks EXCEPT ![s] =
                              [pc |-> "detect", answer |-> Null,
                               step |-> r.step, requests |-> requests]]
             /\ DetectorCalled(SlotHash(r.step, Unwrap(requests[r.step].info)))
             /\ UNCHANGED <<lastRunOn, activity, registryVars, devices>>

\* variant: every successful sync check counts as a change
SyncCodeAlways(answer, cached) == answer.outcome = "success"

\* variant: no returned sync code counts as a change
SyncCodeNever(answer, cached) == FALSE

\* lines 648-657: the returned sync code is new
SyncCodeChanged(answer, cached) ==
  answer.outcome = "success" /\ Unwrap(answer.payload) # cached

\* performSyncCheck() resumes the sub-task: lines 642-674, 687-703
SyncCheckResume(s) ==
  /\ Settled(scTasks[s], "syncCheck")
  /\ UNCHANGED <<failedLogins, reportedHashes, startVars, ticks, kaTasks,
                 envVars, loginFailures, streak, detected, repeated>>
  /\ LET answer == Unwrap(scTasks[s].answer)
     IN IF SyncCodeChanged(answer, data.syncCode)
        THEN /\ data' = [data EXCEPT !.syncCode = Unwrap(answer.payload)]
             /\ IF instance
                THEN /\ scTasks' = [scTasks EXCEPT ![s] =
                                      [pc |-> "fetch", answer |-> Null,
                                       step |-> 0, requests |-> <<>>]]
                     /\ UNCHANGED <<lastRunOn, activity>>
                ELSE SyncCheckEnd(s, TRUE)
             /\ UNCHANGED <<registryVars, devices>>
        ELSE /\ SyncCheckEnd(s, answer.outcome # "throw")
             /\ UNCHANGED <<data, registryVars, devices>>

\* variant: a rejected batch puts the cached sync code back to its first
\* value
FetchResumeRollsBack(s) ==
  /\ Settled(scTasks[s], "fetch")
  /\ UNCHANGED <<failedLogins, reportedHashes, startVars, ticks, kaTasks,
                 envVars, loginFailures, streak>>
  /\ LET answer == Unwrap(scTasks[s].answer)
     IN IF answer.outcome = "throw"
        THEN /\ SyncCheckEnd(s, TRUE)
             /\ data' = [data EXCEPT !.syncCode = "1-0-0"]
             /\ UNCHANGED <<registryVars, detected, repeated, devices>>
        ELSE Refresh(s, data, reportedHashes, answer.payload, 1)

\* Promise.all of the five requests resumes the refresh: lines 697-810
FetchResume(s) ==
  /\ Settled(scTasks[s], "fetch")
  /\ UNCHANGED <<failedLogins, reportedHashes, startVars, ticks, kaTasks,
                 envVars, loginFailures, streak>>
  /\ LET answer == Unwrap(scTasks[s].answer)
     IN IF answer.outcome = "throw"
        THEN /\ SyncCheckEnd(s, TRUE)
             /\ UNCHANGED <<data, registryVars, detected, repeated, devices>>
        ELSE Refresh(s, data, reportedHashes, answer.payload, 1)

\* the detector of request scTasks[s].step resumes the refresh
FetchDetectResume(s) ==
  /\ Settled(scTasks[s], "detect")
  /\ UNCHANGED <<failedLogins, startVars, ticks, kaTasks, envVars,
                 loginFailures, streak>>
  /\ LET result == Unwrap(scTasks[s].answer).outcome
         k == scTasks[s].step
         requests == scTasks[s].requests
         contentHash == SlotHash(k, Unwrap(requests[k].info))
         hashes == Saved(reportedHashes, contentHash, result)
     IN IF result = "throw"
        THEN /\ SyncCheckEnd(s, TRUE)
             /\ UNCHANGED <<data, reportedHashes, registryVars, detected,
                            repeated, devices>>
        ELSE /\ reportedHashes' = hashes
             /\ Refresh(s, data, hashes, requests, k + 1)

(***************************************************************************)
(* The environment: the portal, the detectors, the timers and the clock.   *)
(* An awaited promise settles in a step of its own; the invocation that    *)
(* awaits it resumes in a later step.                                      *)
(***************************************************************************)
\* this.#instance.login() settles
LoginAnswered(t) ==
  /\ Waiting(ticks[t], "login")
  /\ \E outcome \in inputs.loginOutcomes :
       CASE outcome = "success" ->
              \E version \in inputs.portalVersions :
                /\ ticks' = [ticks EXCEPT ![t].answer =
                               Some(Answer("success",
                                           Some([version |-> version])))]
                /\ authenticated' = TRUE
                /\ UNCHANGED loginFailures
         [] outcome = "failure" ->
              /\ loginFailures < MaxLoginFailures
              /\ ticks' = [ticks EXCEPT ![t].answer =
                             Some(Answer("failure", Null))]
              /\ loginFailures' = loginFailures + 1
              /\ UNCHANGED authenticated
         [] outcome = "throw" ->
              /\ ticks' = [ticks EXCEPT ![t].answer =
                             Some(Answer("throw", Null))]
              /\ UNCHANGED <<authenticated, loginFailures>>
  /\ UNCHANGED <<stateVars, registryVars, startVars, kaTasks, scTasks,
                 portalSyncCode, now, clockSteps, inputs, streak, detected,
                 repeated, devices>>

\* detectedNewPortalVersion() settles
LoginDetectAnswered(t) ==
  /\ Waiting(ticks[t], "detect")
  /\ \E result \in inputs.detectResults :
       ticks' = [ticks EXCEPT ![t].answer = Some(Answer(result, Null))]
  /\ UNCHANGED <<stateVars, registryVars, startVars, kaTasks, scTasks,
                 envVars, histVars>>

\* the timer of sleep(suspendSyncing) fires, not before its time
TimerFires(t) ==
  /\ Waiting(ticks[t], "sleep")
  /\ now' = Max(now, ticks[t].wake)
  /\ ticks' = [ticks EXCEPT ![t].answer = Some(Answer("success", Null))]
  /\ UNCHANGED <<stateVars, registryVars, startVars, kaTasks, scTasks,
                 authenticated, portalSyncCode, clockSteps, inputs, histVars>>

\* this.#instance.performKeepAlive() settles
KeepAliveAnswered(k) ==
  /\ Waiting(kaTasks[k], "keepAlive")
  /\ \E outcome \in inputs.keepAliveOutcomes :
       kaTasks' = [kaTasks EXCEPT ![k].answer = Some(Answer(outcome, Null))]
  /\ UNCHANGED <<stateVars, registryVars, startVars, ticks, scTasks, envVars,
                 histVars>>

\* this.#instance.performSyncCheck() settles: a success carries the sync
\* code of the portal
SyncCheckAnswered(s) ==
  /\ Waiting(scTasks[s], "syncCheck")
  /\ \E outcome \in inputs.syncCheckOutcomes :
       scTasks' = [scTasks EXCEPT ![s].answer =
                     Some(Answer(outcome,
                                 IF outcome = "success"
                                 THEN Some(portalSyncCode) ELSE Null))]
  /\ UNCHANGED <<stateVars, registryVars, startVars, ticks, kaTasks, envVars,
                 histVars>>

\* Promise.all of the five requests settles
FetchAnswered(s) ==
  /\ Waiting(scTasks[s], "fetch")
  /\ \E answer \in inputs.fetchAnswers :
       scTasks' = [scTasks EXCEPT ![s].answer = Some(answer)]
  /\ UNCHANGED <<stateVars, registryVars, startVars, ticks, kaTasks, envVars,
                 histVars>>

\* the detector the refresh awaits settles
FetchDetectAnswered(s) ==
  /\ Waiting(scTasks[s], "detect")
  /\ \E result \in inputs.detectResults :
       scTasks' = [scTasks EXCEPT ![s].answer = Some(Answer(result, Null))]
  /\ UNCHANGED <<stateVars, registryVars, startVars, ticks, kaTasks, envVars,
                 histVars>>

\* time passes
ClockAdvance(d) ==
  /\ clockSteps < inputs.maxClockSteps
  /\ clockSteps' = clockSteps + 1
  /\ now' = now + d
  /\ UNCHANGED <<stateVars, registryVars, startVars, taskVars, authenticated,
                 portalSyncCode, inputs, histVars>>

\* the portal session ends
SessionExpires ==
  /\ authenticated
  /\ authenticated' = FALSE
  /\ UNCHANGED <<stateVars, registryVars, startVars, taskVars, portalSyncCode,
                 now, clockSteps, inputs, histVars>>

\* the portal's panel or sensor data changes: it reports another sync code
PortalChanges ==
  /\ \E code \in inputs.syncCodes \ {portalSyncCode} : portalSyncCode' = code
  /\ UNCHANGED <<stateVars, registryVars, startVars, taskVars, authenticated,
                 now, clockSteps, inputs, histVars>>

Next ==
  \/ configureAccessory
  \/ didFinishLaunching
  \/ TickFire
  \/ \E t \in Ticks : LoginAnswered(t)
  \/ \E t \in Ticks : LoginResume(t)
  \/ \E t \in Ticks : LoginDetectAnswered(t)
  \/ \E t \in Ticks : LoginDetectResume(t)
  \/ \E t \in Ticks : TimerFires(t)
  \/ \E t \in Ticks : SleepResume(t)
  \/ \E k \in Tasks : KeepAliveAnswered(k)
  \/ \E k \in Tasks : KeepAliveResume(k)
  \/ \E s \in Tasks : SyncCheckAnswered(s)
  \/ \E s \in Tasks : SyncCheckResume(s)
  \/ \E s \in Tasks : FetchAnswered(s)
  \/ \E s \in Tasks : FetchResume(s)
  \/ \E s \in Tasks : FetchDetectAnswered(s)
  \/ \E s \in Tasks : FetchDetectResume(s)
  \/ \E d \in inputs.clockSteps : ClockAdvance(d)
  \/ SessionExpires
  \/ PortalChanges

(***************************************************************************)
(* What the host and the portal supply.                                    *)
(***************************************************************************)
Ok(info) == [success |-> TRUE, info |-> Some(info)]
Failed == [success |-> FALSE, info |-> Null]

GatewayA ==
  [manufacturer |-> "ADT Pulse Gateway", model |-> "PGZNG1",
   serialNumber |-> "5379"]
FrontDoor ==
  [deviceId |-> 2, deviceType |-> "sensor,doorWindow", name |-> "Front Door",
   zone |-> 3]
FrontDoorConfig ==
  [name |-> Some("Entrance"), adtName |-> "Front Door",
   adtType |-> "doorWindow", adtZone |-> 3]
HallDoorConfig ==
  [name |-> Null, adtName |-> "Front Door", adtType |-> "doorWindow",
   adtZone |-> 3]

NormalConfig ==
  [platform |-> "ADTPulse", mode |-> "normal", speed |-> 100,
   sensors |-> <<FrontDoorConfig>>]
\* two entries for the same portal sensor: the schema allows it
TwiceConfig ==
  [platform |-> "ADTPulse", mode |-> "normal", speed |-> 100,
   sensors |-> <<FrontDoorConfig, HallDoorConfig>>]

\* an accessory of an earlier run, as the host restores it
CachedFrontDoor ==
  [context |-> SensorDevice(FrontDoorConfig, FrontDoor),
   displayName |-> "Entrance"]
\* a sensor of an earlier run that is no longer configured
GarageDoor ==
  [deviceId |-> 9, deviceType |-> "sensor,doorWindow", name |-> "Garage Door",
   zone |-> 9]
GarageConfig ==
  [name |-> Some("Garage"), adtName |-> "Garage Door",
   adtType |-> "doorWindow", adtZone |-> 9]
CachedGarage ==
  [context |-> SensorDevice(GarageConfig, GarageDoor),
   displayName |-> "Garage"]

AllOutcomes == {"success", "failure", "throw"}

SomeFetched ==
  Answer("success",
         <<Ok(GatewayA), Failed, Failed, Ok(<<FrontDoor>>), Failed>>)
NoneFetched == Answer("success", <<Failed, Failed, Failed, Failed, Failed>>)
FetchRejected == Answer("throw", <<>>)

SchedulerInputs ==
  [rawConfigs |-> {NormalConfig},
   cached |-> <<CachedFrontDoor, CachedGarage>>,
   loginOutcomes |-> AllOutcomes,
   portalVersions |-> {"27.0.0-140"},
   detectResults |-> {"new", "old", "throw"},
   keepAliveOutcomes |-> AllOutcomes,
   syncCheckOutcomes |-> AllOutcomes,
   syncCodes |-> {"1-0-0", "2-1-0"},
   fetchAnswers |-> {SomeFetched, NoneFetched, FetchRejected},
   clockSteps |-> {adtSyncCheck, adtKeepAlive},
   maxClockSteps |-> MaxClockSteps]

Init == InitWith(SchedulerInputs)

Spec == Init /\ [][Next]_vars

\* The awaited calls of the timer callback settle, and the event loop runs
\* every continuation that is ready.
TickFairness ==
  \A t \in Ticks :
    /\ WF_vars(LoginAnswered(t))
    /\ WF_vars(LoginResume(t))
    /\ WF_vars(LoginDetectAnswered(t))
    /\ WF_vars(LoginDetectResume(t))
    /\ WF_vars(TimerFires(t))
    /\ WF_vars(SleepResume(t))

FairSpec == Init /\ [][Next]_vars /\ TickFairness

\* The awaited calls of the sub-tasks settle, and the event loop runs every
\* continuation that is ready.
\* A sub-task in flight either awaits a call (the call can settle) or holds
\* the answer (its continuation can run), so one of its steps is enabled
\* exactly while it is in flight; weak fairness of "a keep-alive takes a
\* step" and of "a sync check takes a step", written out.
TaskFairness ==
  /\ []<>(\A k \in Tasks : kaTasks[k].pc = "idle") \/ []<><<kaTasks' # kaTasks>>_vars
  /\ []<>(\A s \in Tasks : scTasks[s].pc = "idle") \/ []<><<scTasks' # scTasks>>_vars

\* A portal whose sub-task calls succeed, fail or reject, whose requests of
\* a refresh are answered or rejected as a batch, and whose detectors may
\* throw.
TaskInputs ==
  [rawConfigs |-> {NormalConfig},
   cached |-> <<CachedFrontDoor>>,
   loginOutcomes |-> {"success", "failure"},
   portalVersions |-> {"27.0.0-140"},
   detectResults |-> {"new", "throw"},
   keepAliveOutcomes |-> AllOutcomes,
   syncCheckOutcomes |-> AllOutcomes,
   syncCodes |-> {"1-0-0", "2-1-0"},
   fetchAnswers |-> {SomeFetched, FetchRejected},
   clockSteps |-> {adtKeepAlive},
   maxClockSteps |-> MaxClockSteps]

TaskInit == InitWith(TaskInputs)

TaskFairSpec == TaskInit /\ [][Next]_vars /\ TaskFairness

\* A portal that answers every request, a configuration that names the
\* front door twice, and time for more than one round of sub-tasks.
RefreshInputs ==
  [rawConfigs |-> {TwiceConfig},
   cached |-> <<CachedFrontDoor>>,
   loginOutcomes |-> {"success", "failure"},
   portalVersions |-> {"27.0.0-140"},
   detectResults |-> {"new", "old"},
   keepAliveOutcomes |-> {"success"},
   syncCheckOutcomes |-> {"success"},
   syncCodes |-> {"1-0-0", "2-1-0"},
   fetchAnswers |-> {SomeFetched},
   clockSteps |-> {adtKeepAlive},
   maxClockSteps |-> MaxRounds]

RefreshInit == InitWith(RefreshInputs)

RefreshSpec == RefreshInit /\ [][Next]_vars

\* Fair scheduling: setInterval keeps calling the
\* callback (a call that starts something is not put off for ever), the
\* calls the callback awaits settle and resume it, and so do the calls of
\* the sub-tasks.
\* The portal answers every request; there is time for one round of
\* sub-tasks after the login.
LiveInputs == [RefreshInputs EXCEPT !.maxClockSteps = MaxClockSteps]

LiveSpec ==
  /\ InitWith(LiveInputs)
  /\ [][Next]_vars
  /\ WF_vars(TickFire)
  /\ TickFairness
  /\ TaskFairness

\* Refreshes in which the portal has no sensors: the two sensor requests
\* succeed with empty lists.
EmptyLists ==
  Answer("success", <<Ok(GatewayA), Failed, Failed, Ok(<<>>), Ok(<<>>)>>)

HashInputs ==
  [rawConfigs |-> {NormalConfig},
   cached |-> <<CachedFrontDoor>>,
   loginOutcomes |-> {"success", "failure"},
   portalVersions |-> {"27.0.0-140"},
   detectResults |-> {"new", "old"},
   keepAliveOutcomes |-> {"success"},
   syncCheckOutcomes |-> {"success"},
   syncCodes |-> {"1-0-0", "2-1-0"},
   fetchAnswers |-> {EmptyLists, SomeFetched},
   clockSteps |-> {adtKeepAlive},
   maxClockSteps |-> MaxClockSteps]

HashSpec == InitWith(HashInputs) /\ [][Next]_vars

\* Startup under the three kinds of configuration besides the normal one:
\* paused at half speed, reset, and two the schema rejects (speed 2, no
\* sensors).
PausedConfig ==
  [platform |-> "ADTPulse", mode |-> "paused", speed |-> 50,
   sensors |-> <<FrontDoorConfig>>]
ResetConfig ==
  [platform |-> "ADTPulse", mode |-> "reset", speed |-> 100,
   sensors |-> <<FrontDoorConfig>>]
InvalidConfig ==
  [platform |-> "ADTPulse", mode |-> "normal", speed |-> 200,
   sensors |-> <<FrontDoorConfig>>]

EmptyConfig ==
  [platform |-> "ADTPulse", mode |-> "normal", speed |-> 100,
   sensors |-> <<>>]
RejectedConfigs == {InvalidConfig, EmptyConfig}

StartInputs ==
  [rawConfigs |-> {PausedConfig, ResetConfig} \cup RejectedConfigs,
   cached |-> <<CachedFrontDoor>>,
   loginOutcomes |-> {"success", "failure"},
   portalVersions |-> {"27.0.0-140"},
   detectResults |-> {"new"},
   keepAliveOutcomes |-> {"success"},
   syncCheckOutcomes |-> {"success"},
   syncCodes |-> {"1-0-0", "2-1-0"},
   fetchAnswers |-> {SomeFetched},
   clockSteps |-> {adtKeepAlive},
   maxClockSteps |-> MaxClockSteps]

StartInit == InitWith(StartInputs)

StartSpec == StartInit /\ [][Next]_vars

PanelA ==
  [manufacturerProvider |-> "ADT", typeModel |-> "Security Panel - Safewatch"]

\* Refreshes in which one request succeeds at a time: the gateway
\* information, the panel information, or none.
GatewayFetched ==
  Answer("success", <<Ok(GatewayA), Failed, Failed, Failed, Failed>>)
PanelFetched ==
  Answer("success", <<Failed, Ok(PanelA), Failed, Failed, Failed>>)

SlotsInputs ==
  [rawConfigs |-> {NormalConfig},
   cached |-> <<CachedFrontDoor>>,
   loginOutcomes |-> {"success", "failure"},
   portalVersions |-> {"27.0.0-140"},
   detectResults |-> {"new"},
   keepAliveOutcomes |-> {"success"},
   syncCheckOutcomes |-> {"success"},
   syncCodes |-> {"1-0-0", "2-1-0"},
   fetchAnswers |-> {GatewayFetched, PanelFetched, NoneFetched},
   clockSteps |-> {adtKeepAlive},
   maxClockSteps |-> MaxRounds]

SlotsInit == InitWith(SlotsInputs)

SlotsSpec == SlotsInit /\ [][Next]_vars

\* Refreshes that fail: no request succeeds, the batch is rejected, or a
\* detector throws; with time for a second round of sub-tasks.
StaleInputs ==
  [rawConfigs |-> {NormalConfig},
   cached |-> <<CachedFrontDoor>>,
   loginOutcomes |-> {"success", "failure"},
   portalVersions |-> {"27.0.0-140"},
   detectResults |-> {"new", "throw"},
   keepAliveOutcomes |-> {"success"},
   syncCheckOutcomes |-> {"success"},
   syncCodes |-> {"1-0-0", "2-1-0"},
   fetchAnswers |-> {GatewayFetched, NoneFetched, FetchRejected},
   clockSteps |-> {adtKeepAlive},
   maxClockSteps |-> MaxRounds]

StaleSpec == InitWith(StaleInputs) /\ [][Next]_vars

\* A configuration that names the front door twice, so that the device list
\* holds its uuid twice, and a cache that holds another accessory only.
TwinInputs ==
  [RefreshInputs EXCEPT !.cached = <<CachedGarage>>]

TwinSpec == InitWith(TwinInputs) /\ [][Next]_vars

(***************************************************************************)
(* The device list and the accessory cache on their own: the platform      *)
(* after startup with the timer stopped, for the data slots a refresh can  *)
(* leave, a parsed configuration and a restored cache; unifyDevices() and  *)
(* the accessory methods are called one at a time.                         *)
(***************************************************************************)
FrontDoorZone4 ==
  [deviceId |-> 4, deviceType |-> "sensor,doorWindow", name |-> "Front Door",
   zone |-> 4]
FrontMotion ==
  [deviceId |-> 6, deviceType |-> "sensor,motion", name |-> "Front Door",
   zone |-> 3]
BackDoor ==
  [deviceId |-> 7, deviceType |-> "sensor,doorWindow", name |-> "Back Door",
   zone |-> 3]
FrontDoorTwin ==
  [deviceId |-> 5, deviceType |-> "sensor,doorWindow", name |-> "Front Door",
   zone |-> 3]
BackDoorConfig ==
  [name |-> Null, adtName |-> "Back Door", adtType |-> "doorWindow",
   adtZone |-> 3]

ConfigOf(sensors) ==
  [platform |-> "ADTPulse", mode |-> "normal", speed |-> 100,
   sensors |-> sensors]

DevicesInputs ==
  [rawConfigs |-> {ConfigOf(<<FrontDoorConfig>>),
                   ConfigOf(<<FrontDoorConfig, HallDoorConfig>>),
                   ConfigOf(<<GarageConfig, FrontDoorConfig>>),
                   ConfigOf(<<FrontDoorConfig, BackDoorConfig>>),
                   ConfigOf(<<BackDoorConfig, FrontDoorConfig>>),
                   ConfigOf(<<GarageConfig, BackDoorConfig, FrontDoorConfig>>)},
   caches |-> {<<>>, <<CachedFrontDoor>>},
   gatewayInfos |-> {Null, Some(GatewayA)},
   panelInfos |-> {Null, Some(PanelA)},
   sensorsInfos |-> {<<>>, <<FrontDoor>>, <<FrontDoorZone4>>, <<FrontMotion>>,
                     <<BackDoor>>, <<BackDoor, FrontDoorTwin, FrontDoor>>},
   callDevices |-> {GatewayDevice(GatewayA),
                    SensorDevice(FrontDoorConfig, FrontDoor)}]

DevicesInit ==
  /\ inputs = DevicesInputs
  /\ activity = [isAdtKeepingAlive |-> FALSE, isAdtSyncChecking |-> FALSE,
                 isLoggingIn |-> FALSE, isSyncing |-> FALSE]
  /\ failedLogins = 0
  /\ lastRunOn = [adtKeepAlive |-> 0, adtSyncCheck |-> 0]
  /\ \E gatewayInfo \in inputs.gatewayInfos, panelInfo \in inputs.panelInfos,
        sensorsInfo \in inputs.sensorsInfos :
       data = [gatewayInfo |-> gatewayInfo, panelInfo |-> panelInfo,
               panelStatus |-> Null, sensorsInfo |-> sensorsInfo,
               sensorsStatus |-> <<>>, syncCode |-> "1-0-0"]
  /\ reportedHashes = {}
  /\ accessories \in inputs.caches
  /\ handlers = {}
  /\ registryLog = <<>>
  /\ rawConfig \in inputs.rawConfigs
  /\ platformConfigValid(rawConfig)
  /\ parsedConfig = Some(safeParseData(rawConfig))
  /\ config = parsedConfig
  /\ instance = TRUE
  /\ interval = FALSE
  /\ launch = "done"
  /\ ticks = [t \in Ticks |-> IdleTick]
  /\ kaTasks = [k \in Tasks |-> IdleTask]
  /\ scTasks = [k \in Tasks |-> IdleCheck]
  /\ authenticated = FALSE
  /\ portalSyncCode = "1-0-0"
  /\ now = StartTime
  /\ clockSteps = 0
  /\ loginFailures = 0
  /\ streak = 0
  /\ detected = {}
  /\ repeated = {}
  /\ devices = <<>>

Registry ==
  [accessories |-> accessories, handlers |-> handlers,
   registryLog |-> registryLog]

\* the registry becomes reg; nothing else changes
RegistryBecomes(reg) ==
  /\ accessories' = reg.accessories
  /\ handlers' = reg.handlers
  /\ registryLog' = reg.registryLog
  /\ UNCHANGED <<stateVars, startVars, taskVars, envVars, loginFailures,
                 streak, detected, repeated>>

\* unifyDevices(), with the pollAccessories() call that ends it
unifyCall ==
  /\ Len(registryLog) < MaxLog
  /\ devices' = unifyDevices(data, config)
  /\ RegistryBecomes(pollAccessories(Registry, unifyDevices(data, config)))

addCall(device) ==
  /\ Len(registryLog) < MaxLog
  /\ RegistryBecomes(addAccessory(Registry, device))
  /\ UNCHANGED devices

updateCall(device) ==
  /\ Len(registryLog) < MaxLog
  /\ RegistryBecomes(updateAccessory(Registry, device))
  /\ UNCHANGED devices

removeCall(i) ==
  /\ Len(registryLog) < MaxLog
  /\ RegistryBecomes(removeAccessory(Registry, accessories[i]))
  /\ UNCHANGED devices

DevicesNext ==
  \/ unifyCall
  \/ \E device \in inputs.callDevices : addCall(device)
  \/ \E device \in inputs.callDevices : updateCall(device)
  \/ \E i \in 1..Len(accessories) : removeCall(i)

DevicesSpec == DevicesInit /\ [][DevicesNext]_vars

(***************************************************************************)
(* Properties.                                                             *)
(***************************************************************************)
TicksInBody == {t \in Ticks : ticks[t].pc # "idle"}
KeepAlivesInFlight == {k \in Tasks : kaTasks[k].pc # "idle"}
SyncChecksInFlight == {s \in Tasks : scTasks[s].pc # "idle"}
LoginsInFlight == {t \in Ticks : ticks[t].pc = "login"}
Sleeping == \E t \in Ticks : ticks[t].pc = "sleep"

\* C1: at most one invocation of the timer callback is inside the guarded
\* block at a time, isSyncing is set exactly while one is, and no step taken
\* while isSyncing is set lets another invocation into the block or changes
\* the state on behalf of a skipped invocation.
C1_SingleSync ==
  /\ [](Cardinality(TicksInBody) <= 1)
  /\ [](activity.isSyncing <=> TicksInBody # {})
  /\ [][activity.isSyncing =>
          \A t \in Ticks : ticks[t].pc = "idle" => ticks'[t].pc = "idle"]_vars

\* C1 witness: the timer runs while an invocation waits for login() and a
\* free slot exists, so that only the guard keeps the next invocation out.
C1_Witness ==
  /\ interval
  /\ activity.isSyncing
  /\ \E t \in Ticks : Waiting(ticks[t], "login")
  /\ FreeTick # 0

\* C2: at most one performKeepAlive() call, at most one performSyncCheck()
\* call (with the refresh it triggers) and at most one login() call are in
\* flight at any time.
C2_OneInFlight ==
  /\ Cardinality(KeepAlivesInFlight) <= 1
  /\ Cardinality(SyncChecksInFlight) <= 1
  /\ Cardinality(LoginsInFlight) <= 1

\* C2 witness: a keep-alive and a sync check are both awaiting, their
\* last-run stamps are still a full interval old, and the timer callback is
\* free to run again in an authenticated session.
C2_Witness ==
  /\ interval
  /\ authenticated
  /\ TicksInBody = {}
  /\ \E k \in Tasks : Waiting(kaTasks[k], "keepAlive")
  /\ \E s \in Tasks : Waiting(scTasks[s], "syncCheck")
  /\ now - lastRunOn.adtKeepAlive >= adtKeepAlive
  /\ now - lastRunOn.adtSyncCheck >= adtSyncCheck
  /\ FreeKeepAlive # 0
  /\ FreeSyncCheck # 0

\* C3: the failed-login counter never exceeds maxLoginRetries, and while it
\* is at the maximum the callback is in its cooldown sleep and no login()
\* call is in flight.
C3_CounterBounded ==
  /\ failedLogins <= maxLoginRetries
  /\ failedLogins >= maxLoginRetries => Sleeping /\ LoginsInFlight = {}

\* C3 witness: the counter is at the maximum and the portal would still
\* answer a login() with a failure.
C3_Witness ==
  /\ failedLogins = maxLoginRetries
  /\ loginFailures < MaxLoginFailures
  /\ "failure" \in inputs.loginOutcomes

\* C4 as stated: no detector is called twice for the same content hash.
C4_Original == repeated = {}

\* C4: a detector is never called for content whose hash is in
\* reportedHashes: while a detector call is in flight or waits to resume, the
\* hash of its content is not in the list.
C4_ReportedOnce ==
  /\ \A t \in Ticks :
       ticks[t].pc = "detect" =>
         ~(generateHash(StringifyPortalVersion(Unwrap(ticks[t].portalVersion)))
             \in reportedHashes)
  /\ \A s \in Tasks :
       scTasks[s].pc = "detect" =>
         ~(SlotHash(scTasks[s].step,
                    Unwrap(scTasks[s].requests[scTasks[s].step].info))
             \in reportedHashes)

\* C4 witness: a later refresh fetched the gateway information again, whose
\* hash was reported after the only call of its detector, and went on to
\* the sensors detector, which is called once more because its first call
\* did not report the content.
C4_Witness ==
  /\ \E s \in Tasks :
       /\ Waiting(scTasks[s], "detect")
       /\ scTasks[s].step = 4
       /\ scTasks[s].requests[1].success
  /\ SlotHash(1, GatewayA) \in reportedHashes \ repeated
  /\ SlotHash(4, <<FrontDoor>>) \in repeated

\* C5: the device list unifyDevices() builds never holds two records with
\* the same id.
C5_DistinctIds ==
  \A i, j \in 1..Len(devices) : devices[i].id = devices[j].id => i = j

\* C6: three failed logins in a row put the callback into its cooldown
\* sleep; while it sleeps no login() call is in flight and no step starts
\* one; the step that ends the sleep leaves the counter at 0 and isLoggingIn
\* clear, so that the next callback of an unauthenticated session calls
\* login() again.
C6_Cooldown ==
  /\ [](streak >= maxLoginRetries => Sleeping)
  /\ [](Sleeping => LoginsInFlight = {})
  /\ [][Sleeping => \A t \in Ticks : ticks'[t].pc # "login"]_vars
  /\ [][\A t \in Ticks :
          ticks[t].pc = "sleep" /\ ticks'[t].pc # "sleep" =>
            /\ failedLogins' = 0
            /\ ~activity'.isLoggingIn
            /\ ~activity'.isSyncing]_vars

\* C6 witness: no login has succeeded, three have failed, the cooldown is
\* over with the counter at 0, and a new login() call is in flight.
C6_Witness ==
  /\ detected = {}
  /\ loginFailures = maxLoginRetries
  /\ failedLogins = 0
  /\ ~authenticated
  /\ LoginsInFlight # {}

\* C7: right after a successful login the failed-login counter is 0, and the
\* cooldown sleep is entered only after maxLoginRetries failed logins with
\* no successful one in between.
C7_ResetOnSuccess ==
  /\ \A t \in Ticks : ticks[t].pc = "detect" => failedLogins = 0
  /\ Sleeping => streak >= maxLoginRetries

\* C8: once the callback that called login() has finished, isLoggingIn is
\* clear, whatever login() or the portal-version detector did.
C8_LoginFlagCleared == TicksInBody = {} => ~activity.isLoggingIn

\* C9: isSyncing is clear whenever no invocation of the callback is inside
\* the guarded block, and whenever it is set it is cleared later, provided
\* the calls the callback awaits settle.
C9_SyncCleared ==
  /\ [](TicksInBody = {} => ~activity.isSyncing)
  /\ (activity.isSyncing ~> ~activity.isSyncing)

\* C9 witness: a callback ended by an exception (isLoggingIn was left set)
\* and isSyncing is clear again while the timer still runs.
C9_Witness ==
  /\ interval
  /\ TicksInBody = {}
  /\ activity.isLoggingIn
  /\ ~activity.isSyncing

\* C10: the step that resumes a sync check after performSyncCheck() caches
\* the returned code and starts the refresh if the call succeeded with a
\* code other than the cached one, and otherwise starts no refresh and
\* leaves the cached code alone; no other step starts a refresh or changes
\* the cached code, and a refresh is started for one invocation at a time.
C10_RefreshOnChange ==
  [][/\ \A s \in Tasks :
          /\ Settled(scTasks[s], "syncCheck") /\ scTasks'[s] # scTasks[s] =>
               LET answer == Unwrap(scTasks[s].answer)
               IN IF /\ answer.outcome = "success"
                     /\ Unwrap(answer.payload) # data.syncCode
                  THEN /\ data'.syncCode = Unwrap(answer.payload)
                       /\ Waiting(scTasks'[s], "fetch")
                  ELSE /\ data'.syncCode = data.syncCode
                       /\ scTasks'[s].pc = "idle"
          /\ scTasks[s].pc # "fetch" /\ scTasks'[s].pc = "fetch" =>
               Settled(scTasks[s], "syncCheck")
     /\ data'.syncCode # data.syncCode =>
          \E s \in Tasks : Settled(scTasks[s], "syncCheck")
     /\ Cardinality({s \in Tasks : scTasks'[s].pc = "fetch"}) <= 1]_vars

\* C10 witness: a sync check returned "2-1-0" against the cached "1-0-0";
\* the code is cached and the five requests of the refresh are in flight.
C10_Witness ==
  /\ data.syncCode = "2-1-0"
  /\ \E s \in Tasks : Waiting(scTasks[s], "fetch")

Uuids(devs) == {devs[i].uuid : i \in 1..Len(devs)}
RegisteredUuids(reg) ==
  {reg.accessories[i].context.uuid : i \in 1..Len(reg.accessories)}
\* the entries a call appended to a log that had n entries
LogSince(reg, n) == SubSeq(reg.registryLog, n + 1, Len(reg.registryLog))
Entries(log, op) == {i \in 1..Len(log) : log[i].op = op}

\* C11: for the list unifyDevices() builds and a registry that holds none of
\* its devices, a first pollAccessories() registers every distinct device
\* exactly once, and a second one with the same list registers nothing,
\* turns nothing down, updates every entry of the list and leaves the
\* registered uuids as they were.
C11_PollTwice ==
  LET devs == unifyDevices(data, config)
      once == pollAccessories(Registry, devs)
      twice == pollAccessories(once, devs)
      first == LogSince(once, Len(registryLog))
      second == LogSince(twice, Len(once.registryLog))
  IN Uuids(devs) \cap RegisteredUuids(Registry) = {} =>
       /\ \A uuid \in Uuids(devs) :
            Cardinality({i \in Entries(first, "register") :
                           first[i].uuid = uuid}) = 1
       /\ Cardinality(Entries(first, "register")) = Cardinality(Uuids(devs))
       /\ Entries(second, "register") = {}
       /\ Entries(second, "cannotAdd") = {}
       /\ Cardinality(Entries(second, "update")) = Len(devs)
       /\ RegisteredUuids(twice) = RegisteredUuids(once)

\* C11 witness: unifyDevices() ran twice on an empty cache with a list of
\* two devices: two register calls, then two update calls.
C11_Witness ==
  /\ Len(devices) = 2
  /\ Len(registryLog) = 4
  /\ \A i \in 1..2 :
       /\ registryLog[i] = [op |-> "register", uuid |-> devices[i].uuid]
       /\ registryLog[i + 2] = [op |-> "update", uuid |-> devices[i].uuid]

\* the name a configured sensor is shown under: name ?? adtName
ShownName(sensorConfig) ==
  IF sensorConfig.name = Null THEN sensorConfig.adtName
  ELSE Unwrap(sensorConfig.name)
\* the record of the list was built for the configured sensor
BuiltFor(record, sensorConfig) ==
  /\ record.category = "SENSOR"
  /\ record.name = ShownName(sensorConfig)
  /\ record.type = sensorConfig.adtType
  /\ record.zone = sensorConfig.adtZone
SensorRecords(devs) == SelectSeq(devs, LAMBDA record : record.category = "SENSOR")

\* C12: a configured sensor that no portal entry matches gets no record in
\* the list unifyDevices() builds, every configured sensor that has a match
\* gets its record (the list holds one sensor record per matched entry),
\* and pollAccessories() handles every record of the list.
C12_UnmatchedSkipped ==
  LET sensors == Unwrap(config).sensors
      matched == {i \in 1..Len(sensors) :
                    \E j \in 1..Len(data.sensorsInfo) :
                      SensorMatches(sensors[i], data.sensorsInfo[j])}
      devs == unifyDevices(data, config)
      records == SensorRecords(devs)
      polled == pollAccessories(Registry, devs)
  IN /\ Len(records) = Cardinality(matched)
     /\ \A i \in 1..Len(sensors) :
          (i \in matched) <=>
            \E k \in 1..Len(records) : BuiltFor(records[k], sensors[i])
     /\ Len(LogSince(polled, Len(registryLog))) = Len(devs)

\* C12 witness: unifyDevices() ran with the configuration (Garage Door,
\* Front Door) against a portal list without Garage Door: the list holds
\* the Front Door record only and each of its records was polled.
C12_Witness ==
  /\ Unwrap(config).sensors = <<GarageConfig, FrontDoorConfig>>
  /\ FindSensor(data.sensorsInfo, GarageConfig) = 0
  /\ SensorRecords(devices) =
       <<SensorDevice(FrontDoorConfig, FrontDoor)>>
  /\ Len(registryLog) = Len(devices)

\* C13: a configured sensor gets a record exactly when some portal entry has
\* the same name, a device type that normalises to the configured type and
\* the same zone; the entry find() returns is the first such entry of the
\* portal list, and the record carries that entry's id and device type.
C13_ExactMatch ==
  LET sensors == Unwrap(config).sensors
      info == data.sensorsInfo
      records == SensorRecords(unifyDevices(data, config))
      Equal(i, j) ==
        /\ sensors[i].adtName = info[j].name
        /\ sensors[i].adtType = condenseSensorType(info[j].deviceType)
        /\ sensors[i].adtZone = info[j].zone
  IN \A i \in 1..Len(sensors) :
       LET found == FindSensor(info, sensors[i])
       IN /\ (found # 0) <=> \E j \in 1..Len(info) : Equal(i, j)
          /\ (\E k \in 1..Len(records) : BuiltFor(records[k], sensors[i]))
               <=> \E j \in 1..Len(info) : Equal(i, j)
          /\ found # 0 =>
               /\ Equal(i, found)
               /\ \A j \in 1..(found - 1) : ~Equal(i, j)
               /\ \A k \in 1..Len(records) :
                    BuiltFor(records[k], sensors[i]) =>
                      /\ records[k].id = DeviceId(info[found].deviceId)
                      /\ records[k].model = info[found].deviceType

\* C13 witness: unifyDevices() ran against a portal list with an entry that
\* differs in the name and two entries that match Front Door: the record
\* carries the id of the first of the two.
C13_Witness ==
  /\ data.sensorsInfo = <<BackDoor, FrontDoorTwin, FrontDoor>>
  /\ Unwrap(config).sensors = <<FrontDoorConfig>>
  /\ SensorRecords(devices) = <<SensorDevice(FrontDoorConfig, FrontDoorTwin)>>
  /\ \E i \in 1..Len(registryLog) :
       registryLog[i] =
         [op |-> "register", uuid |-> uuidGenerate(DeviceId(FrontDoorTwin.deviceId))]

\* the schema accepted the configuration and it selects the mode
ModeIs(mode) == platformConfigValid(rawConfig) /\ rawConfig.mode = mode
NothingRuns ==
  /\ \A t \in Ticks : ticks[t] = IdleTick
  /\ \A k \in Tasks : kaTasks[k] = IdleTask /\ scTasks[k] = IdleCheck

\* C14: in reset mode, once the launch listener has run, every restored
\* accessory was unregistered exactly once, the registry is empty, no
\* register or update call was made and the sync timer is not running.
C14_ResetMode ==
  (ModeIs("reset") /\ launch = "done") =>
    /\ accessories = <<>>
    /\ Len(registryLog) = Len(inputs.cached)
    /\ \A i \in 1..Len(inputs.cached) :
         Cardinality({j \in Entries(registryLog, "unregister") :
                        registryLog[j].uuid = inputs.cached[i].context.uuid}) = 1
    /\ ~interval
    /\ NothingRuns

\* C15: in paused mode the sync timer is never started, no callback or
\* sub-task runs and no register, update or unregister call is made.
C15_PausedMode ==
  ModeIs("paused") =>
    /\ ~interval
    /\ NothingRuns
    /\ registryLog = <<>>

\* C16: for a configuration the schema rejects (a speed of 2, an empty
\* sensor list), at every moment of the run no portal client exists,
\* the sync timer is not running, no callback or sub-task runs, the portal
\* was never asked to log in, no data slot or timestamp changed and no
\* register, update or unregister call was made.
C16_InvalidAborts ==
  rawConfig \in RejectedConfigs =>
    /\ ~instance
    /\ config = Null
    /\ ~interval
    /\ NothingRuns
    /\ loginFailures = 0 /\ ~authenticated /\ detected = {}
    /\ lastRunOn = [adtKeepAlive |-> 0, adtSyncCheck |-> 0]
    /\ data.gatewayInfo = Null /\ data.sensorsInfo = <<>>
    /\ registryLog = <<>>

\* C16 witness: the rejected configuration, after the host restored the
\* cached accessories and time passed.
C16_Witness ==
  /\ rawConfig = InvalidConfig
  /\ accessories = inputs.cached
  /\ accessories # <<>>
  /\ now > StartTime

\* C17: a callback that starts the cooldown sleeps for suspendSyncing
\* multiplied by the configured speed (speed is held in percent).
C17_SpeedScales ==
  [][\A t \in Ticks :
       (ticks[t].pc # "sleep" /\ ticks'[t].pc = "sleep") =>
         ticks'[t].wake = now + (suspendSyncing * Unwrap(config).speed) \div 100]_vars

\* C18: no step of the scheduler takes an accessory out of the registry or
\* moves it: every accessory keeps its place and its uuid, one whose uuid is
\* not in the device list the step built keeps all its fields, and no
\* unregister call is ever made.
C18_NeverRemoved ==
  [][/\ Len(accessories') >= Len(accessories)
     /\ \A i \in 1..Len(accessories) :
          /\ accessories'[i].context.uuid = accessories[i].context.uuid
          /\ accessories[i].context.uuid \notin Uuids(devices') =>
               accessories'[i] = accessories[i]
     /\ Entries(registryLog', "unregister") = {}]_vars

\* C18 witness: a refresh built a list without the cached Garage accessory
\* and registered and updated the devices of the list; Garage is still
\* registered as it was restored.
C18_Witness ==
  /\ devices # <<>>
  /\ CachedGarage.context.uuid \notin Uuids(devices)
  /\ Entries(registryLog, "register") # {}
  /\ Entries(registryLog, "update") # {}
  /\ accessories[2] = CachedGarage

\* C19: addAccessory() for a uuid that is registered leaves the accessories
\* and the handlers as they are and makes no call to the host (the call is
\* turned down with an error); updateAccessory() for a uuid that is not
\* registered does the same (with a warning); and pollAccessories() never
\* makes an addAccessory() call that is turned down.
C19_Refusals ==
  LET devs == unifyDevices(data, config)
      polled == pollAccessories(Registry, devs)
  IN /\ \A device \in inputs.callDevices \cup {devs[i] : i \in 1..Len(devs)} :
          LET added == addAccessory(Registry, device)
              updated == updateAccessory(Registry, device)
          IN IF device.uuid \in RegisteredUuids(Registry)
             THEN /\ added.accessories = accessories
                  /\ added.handlers = handlers
                  /\ LogSince(added, Len(registryLog)) =
                       <<[op |-> "cannotAdd", uuid |-> device.uuid]>>
             ELSE /\ updated.accessories = accessories
                  /\ updated.handlers = handlers
                  /\ LogSince(updated, Len(registryLog)) =
                       <<[op |-> "cannotUpdate", uuid |-> device.uuid]>>
     /\ Entries(LogSince(polled, Len(registryLog)), "cannotAdd") = {}

\* C19 witness: updateAccessory() was called for the gateway before it was
\* registered and addAccessory() after: both calls were turned down and
\* the gateway is registered once.
C19_Witness ==
  LET uuid == GatewayDevice(GatewayA).uuid
  IN /\ registryLog = <<[op |-> "cannotUpdate", uuid |-> uuid],
                        [op |-> "register", uuid |-> uuid],
                        [op |-> "cannotAdd", uuid |-> uuid]>>
     /\ Cardinality({i \in 1..Len(accessories) :
                       accessories[i].context.uuid = uuid}) = 1

\* the sync checks that are inside fetchUpdatedInformation()
Refreshing == {s \in Tasks : scTasks[s].pc \in {"fetch", "detect"}}

\* C20: after every step at most one fetchUpdatedInformation() run is under
\* way and isAdtSyncChecking is set while it is; a run starts only as the
\* continuation of a settled performSyncCheck() call, and the device list
\* or the registry changes only in a step of the run under way.
C20_RefreshAlone ==
  [][/\ Cardinality(Refreshing') <= 1
     /\ Refreshing' # {} => activity'.isAdtSyncChecking
     /\ \A s \in Refreshing' \ Refreshing : Settled(scTasks[s], "syncCheck")
     /\ (launch = "done" /\ <<devices, registryLog>>' # <<devices, registryLog>>)
          => \E s \in Refreshing : ~Waiting(scTasks[s], scTasks[s].pc)]_vars

\* C20 witness: a refresh awaits its five requests while the sync check is
\* due again and the timer callback is free to run.
C20_Witness ==
  /\ interval
  /\ authenticated
  /\ TicksInBody = {}
  /\ \E s \in Tasks : Waiting(scTasks[s], "fetch")
  /\ now - lastRunOn.adtSyncCheck >= adtSyncCheck
  /\ FreeSyncCheck # 0

\* C21: a keep-alive and a sync check that ran (the guard was passed and the
\* portal call settled, with success, with a failure result or by throwing)
\* have set their own lastRunOn stamp to the current time when they end.
C21_StampedEveryAttempt ==
  [][/\ \A k \in Tasks :
          (kaTasks[k].pc # "idle" /\ kaTasks'[k].pc = "idle") =>
            lastRunOn'.adtKeepAlive = now'
     /\ \A s \in Tasks :
          (scTasks[s].pc # "idle" /\ scTasks'[s].pc = "idle") =>
            lastRunOn'.adtSyncCheck = now']_vars

\* C22: isAdtKeepingAlive and isAdtSyncChecking are clear whenever no
\* keep-alive, respectively no sync check, is in flight, and whenever one of
\* them is set it is cleared later, provided the calls the sub-task awaits
\* settle.
C22_TaskFlagsCleared ==
  /\ [](KeepAlivesInFlight = {} => ~activity.isAdtKeepingAlive)
  /\ [](SyncChecksInFlight = {} => ~activity.isAdtSyncChecking)
  /\ (activity.isAdtKeepingAlive ~> ~activity.isAdtKeepingAlive)
  /\ (activity.isAdtSyncChecking ~> ~activity.isAdtSyncChecking)

\* C22 witness: performKeepAlive() has rejected and a detector called by the
\* refresh has thrown; both flags are still set and the cleanup is next.
C22_Witness ==
  /\ activity.isAdtKeepingAlive
  /\ activity.isAdtSyncChecking
  /\ \E k \in Tasks :
       /\ Settled(kaTasks[k], "keepAlive")
       /\ Unwrap(kaTasks[k].answer).outcome = "throw"
  /\ \E s \in Tasks :
       /\ Settled(scTasks[s], "detect")
       /\ Unwrap(scTasks[s].answer).outcome = "throw"

\* the step starts a keep-alive, a sync check
KeepAliveKicked == \E k \in Tasks : kaTasks[k].pc = "idle" /\ kaTasks'[k].pc # "idle"
SyncCheckKicked == \E s \in Tasks : scTasks[s].pc = "idle" /\ scTasks'[s].pc # "idle"
\* the callback in slot t resumes after login() and returns, after the
\* portal-version detector and returns
EndsAfterLogin(t) == ticks[t].pc = "login" /\ ticks'[t].pc = "idle"
EndsAfterDetector(t) == ticks[t].pc = "detect" /\ ticks'[t].pc = "idle"

\* C23 as stated: the callback that made the login starts no keep-alive and
\* no sync check, whether it returns right after login() or after the
\* portal-version detector.
C23_Original ==
  [][\A t \in Ticks :
       (EndsAfterLogin(t) \/ EndsAfterDetector(t)) =>
         ~KeepAliveKicked /\ ~SyncCheckKicked]_vars

\* C23: the step that resumes the callback after a successful login() sets
\* both stamps to the current time; a callback that returns right after
\* login() starts no sub-task; one that returns after the portal-version
\* detector starts a sub-task only if a full interval of that sub-task has
\* passed since its stamp.
C23_PacedAfterLogin ==
  [][\A t \in Ticks :
       /\ (/\ Settled(ticks[t], "login")
           /\ Unwrap(ticks[t].answer).outcome = "success"
           /\ ticks'[t] # ticks[t])
            => lastRunOn' = [adtKeepAlive |-> now, adtSyncCheck |-> now]
       /\ EndsAfterLogin(t) => ~KeepAliveKicked /\ ~SyncCheckKicked
       /\ (EndsAfterDetector(t) /\ KeepAliveKicked) =>
            now - lastRunOn.adtKeepAlive >= adtKeepAlive
       /\ (EndsAfterDetector(t) /\ SyncCheckKicked) =>
            now - lastRunOn.adtSyncCheck >= adtSyncCheck]_vars

\* C23 witness: the session was opened at the start time, one keep-alive
\* interval has passed, and a keep-alive and a sync check run, the stamps
\* still being those of the login.
C23_Witness ==
  /\ authenticated
  /\ lastRunOn = [adtKeepAlive |-> StartTime, adtSyncCheck |-> StartTime]
  /\ now = StartTime + adtKeepAlive
  /\ \E k \in Tasks : Waiting(kaTasks[k], "keepAlive")
  /\ \E s \in Tasks : Waiting(scTasks[s], "syncCheck")

\* C24: a step starts a keep-alive only if isAuthenticated() holds and the
\* time since lastRunOn.adtKeepAlive, as the callback reads it, is at least
\* adtKeepAlive; likewise a sync check with adtSyncCheck; and a callback
\* that goes to sleep for the cooldown, or wakes from it, starts neither.
C24_KickGuarded ==
  [][/\ KeepAliveKicked =>
          authenticated /\ now - lastRunOn'.adtKeepAlive >= adtKeepAlive
     /\ SyncCheckKicked =>
          authenticated /\ now - lastRunOn'.adtSyncCheck >= adtSyncCheck
     /\ \A t \in Ticks :
          (ticks[t].pc = "sleep") # (ticks'[t].pc = "sleep") =>
            ~KeepAliveKicked /\ ~SyncCheckKicked]_vars

\* C24 witness: a callback sleeps for the cooldown, the session is not
\* authenticated, both thresholds are exceeded and no sub-task runs.
C24_Witness ==
  /\ \E t \in Ticks : ticks[t].pc = "sleep"
  /\ ~authenticated
  /\ now - lastRunOn.adtKeepAlive >= adtKeepAlive
  /\ now - lastRunOn.adtSyncCheck >= adtSyncCheck
  /\ KeepAlivesInFlight = {}
  /\ SyncChecksInFlight = {}

\* the timer callback can run into the guarded block now
TickCanEnter ==
  interval /\ instance /\ ~activity.isSyncing /\ FreeTick # 0

\* C25: while a sync check (with its refresh) is in flight, a callback that
\* finds the session authenticated and the keep-alive due starts the
\* keep-alive; while a keep-alive is in flight, it starts a sync check that
\* is due; and while either is in flight, a callback that finds the session
\* unauthenticated makes its login() call.
C25_Independent ==
  /\ (/\ TickCanEnter /\ authenticated
      /\ SyncChecksInFlight # {}
      /\ ~activity.isAdtKeepingAlive /\ FreeKeepAlive # 0
      /\ now - lastRunOn.adtKeepAlive >= adtKeepAlive)
       => ENABLED (TickFire /\ KeepAliveKicked)
  /\ (/\ TickCanEnter /\ authenticated
      /\ KeepAlivesInFlight # {}
      /\ ~activity.isAdtSyncChecking /\ FreeSyncCheck # 0
      /\ now - lastRunOn.adtSyncCheck >= adtSyncCheck)
       => ENABLED (TickFire /\ SyncCheckKicked)
  /\ (/\ TickCanEnter /\ ~authenticated /\ ~activity.isLoggingIn
      /\ (KeepAlivesInFlight # {} \/ SyncChecksInFlight # {}))
       => ENABLED (TickFire /\ \E t \in Ticks : ticks'[t].pc = "login")

\* C25 witness: a keep-alive still awaits performKeepAlive(); since it was
\* started a sync check ran to its end, the session ended, and a later
\* callback is inside the guarded block awaiting login().
C25_Witness ==
  /\ \E k \in Tasks : Waiting(kaTasks[k], "keepAlive")
  /\ lastRunOn.adtSyncCheck > lastRunOn.adtKeepAlive
  /\ SyncChecksInFlight = {}
  /\ activity.isSyncing
  /\ \E t \in Ticks : Waiting(ticks[t], "login")

\* C26: the step that ends a refresh, whatever the five requests and the
\* detectors did, has built the device list from the data slots and has
\* polled every device of it.
C26_UnifyAlways ==
  [][\A s \in Tasks :
       (scTasks[s].pc \in {"fetch", "detect"} /\ scTasks'[s].pc = "idle") =>
         /\ devices' = unifyDevices(data', config)
         /\ Len(registryLog') = Len(registryLog) + Len(devices')]_vars

\* the results of the five requests as the refresh in slot s holds them
RequestsOf(s) ==
  IF scTasks[s].pc = "detect" THEN scTasks[s].requests
  ELSE IF Settled(scTasks[s], "fetch")
          /\ Unwrap(scTasks[s].answer).outcome = "success"
  THEN Unwrap(scTasks[s].answer).payload
  ELSE <<>>

\* C27: a step changes a data slot only if it is a step of a refresh whose
\* request for that slot succeeded, and the step that ends a refresh leaves
\* in every slot whose request succeeded the payload of that request.
C27_SlotsFollowFetch ==
  [][/\ \A k \in 1..5 :
          data'[Slots[k]] # data[Slots[k]] =>
            \E s \in Tasks :
              /\ scTasks'[s] # scTasks[s]
              /\ k \in 1..Len(RequestsOf(s))
              /\ RequestsOf(s)[k].success
              /\ data'[Slots[k]] = SlotValue(k, Unwrap(RequestsOf(s)[k].info))
     /\ \A s \in Tasks :
          (scTasks[s].pc \in {"fetch", "detect"} /\ scTasks'[s].pc = "idle") =>
            \A k \in 1..Len(RequestsOf(s)) :
              RequestsOf(s)[k].success =>
                data'[Slots[k]] = SlotValue(k, Unwrap(RequestsOf(s)[k].info))]_vars

\* the content hash of the detector call the slot is in
TickContent(t) ==
  generateHash(StringifyPortalVersion(Unwrap(ticks[t].portalVersion)))
TaskContent(s) ==
  SlotHash(scTasks[s].step, Unwrap(scTasks[s].requests[scTasks[s].step].info))

\* C28: no step takes a hash out of reportedHashes; a step that adds
\* something adds one hash, that of a detector call that has just returned
\* true and resumes in this step; and the step that resumes a detector call
\* that returned false, or threw, leaves the set as it is.
C28_HashesGrow ==
  [][/\ reportedHashes \subseteq reportedHashes'
     /\ reportedHashes' # reportedHashes =>
          \/ \E t \in Ticks :
               /\ Settled(ticks[t], "detect")
               /\ Unwrap(ticks[t].answer).outcome = "new"
               /\ ticks'[t] # ticks[t]
               /\ reportedHashes' = reportedHashes \cup {TickContent(t)}
          \/ \E s \in Tasks :
               /\ Settled(scTasks[s], "detect")
               /\ Unwrap(scTasks[s].answer).outcome = "new"
               /\ scTasks'[s] # scTasks[s]
               /\ reportedHashes' = reportedHashes \cup {TaskContent(s)}
     /\ \A t \in Ticks :
          (/\ Settled(ticks[t], "detect")
           /\ Unwrap(ticks[t].answer).outcome # "new"
           /\ ticks'[t] # ticks[t]) => reportedHashes' = reportedHashes
     /\ \A s \in Tasks :
          (/\ Settled(scTasks[s], "detect")
           /\ Unwrap(scTasks[s].answer).outcome # "new"
           /\ scTasks'[s] # scTasks[s]) => reportedHashes' = reportedHashes]_vars

\* C28 witness: the gateway detector returned true and its hash is in the
\* set; the portal-version detector was called and its hash is not.
C28_Witness ==
  /\ SlotHash(1, GatewayA) \in reportedHashes
  /\ \E h \in detected : h \notin reportedHashes /\ h # SlotHash(1, GatewayA)
  /\ \A t \in Ticks : ticks[t].pc # "detect"
  /\ \A s \in Tasks : scTasks[s].pc # "detect"

\* the list holds the gateway record, the panel record
HasGateway(devs) ==
  \E i \in 1..Len(devs) : devs[i].id = DeviceId(0) /\ devs[i].category = "BRIDGE"
HasPanel(devs) ==
  \E i \in 1..Len(devs) :
    devs[i].id = DeviceId(1) /\ devs[i].category = "SECURITY_SYSTEM"

\* C29: after every step, the list unifyDevices() builds from the data slots
\* holds the gateway record exactly when gatewayInfo is not null and the
\* panel record exactly when panelInfo is not null; no step sets a slot
\* that is known back to null; and once the list a refresh built holds one
\* of the two records, the list of every later refresh holds it.
C29_FixedRecords ==
  [][/\ HasGateway(unifyDevices(data', config')) <=> data'.gatewayInfo # Null
     /\ HasPanel(unifyDevices(data', config')) <=> data'.panelInfo # Null
     /\ data.gatewayInfo # Null => data'.gatewayInfo # Null
     /\ data.panelInfo # Null => data'.panelInfo # Null
     /\ HasGateway(devices) => HasGateway(devices')
     /\ HasPanel(devices) => HasPanel(devices')]_vars

\* C29 witness: one refresh fetched the gateway information only, another
\* the panel information only; the list of the later one holds both
\* records.
C29_Witness ==
  /\ data.gatewayInfo # Null
  /\ data.panelInfo # Null
  /\ HasGateway(devices)
  /\ HasPanel(devices)

\* the orders the configured sensors can be written in
Reordered(sensors) ==
  {[i \in 1..Len(sensors) |-> sensors[order[i]]] :
     order \in Permutations(1..Len(sensors))}
\* what identifies the records of a list, the ids the registry holds
RecordSet(devs) ==
  {[id |-> devs[i].id, name |-> devs[i].name, type |-> devs[i].type,
    zone |-> devs[i].zone] : i \in 1..Len(devs)}
RegisteredIds(reg) ==
  {reg.accessories[i].context.id : i \in 1..Len(reg.accessories)}

\* C30: for the data slots as they are and every order of the configured
\* sensors, unifyDevices() builds the same set of (id, name, type, zone)
\* records, every sensor record has the id made from the deviceId of the
\* portal entry it matched, and pollAccessories() leaves the same set of
\* ids in the registry.
C30_OrderFree ==
  LET sensors == Unwrap(config).sensors
      ListFor(order) ==
        unifyDevices(data, Some([Unwrap(config) EXCEPT !.sensors = order]))
      written == ListFor(sensors)
  IN /\ \A order \in Reordered(sensors) :
          /\ RecordSet(ListFor(order)) = RecordSet(written)
          /\ RegisteredIds(pollAccessories(Registry, ListFor(order))) =
               RegisteredIds(pollAccessories(Registry, written))
     /\ \A i \in 1..Len(sensors) :
          LET found == FindSensor(data.sensorsInfo, sensors[i])
          IN found # 0 =>
               \A k \in 1..Len(written) :
                 BuiltFor(written[k], sensors[i]) =>
                   written[k].id = DeviceId(data.sensorsInfo[found].deviceId)

\* C30 witness: unifyDevices() ran with Back Door configured before Front
\* Door, against a portal list that holds both: the two records carry the
\* ids of the portal entries and both ids are registered.
C30_Witness ==
  /\ Unwrap(config).sensors = <<BackDoorConfig, FrontDoorConfig>>
  /\ [i \in 1..Len(SensorRecords(devices)) |-> SensorRecords(devices)[i].id] =
       <<DeviceId(BackDoor.deviceId), DeviceId(FrontDoorTwin.deviceId)>>
  /\ {DeviceId(BackDoor.deviceId), DeviceId(FrontDoorTwin.deviceId)}
       \subseteq RegisteredIds(Registry)

C32_SharedByContent ==
  [][/\ \A t \in Ticks :
          ticks'[t].pc = "detect" /\ ticks'[t] # ticks[t] =>
            generateHash(StringifyPortalVersion(Unwrap(ticks'[t].portalVersion)))
              \notin reportedHashes'
     /\ \A s \in Tasks :
          scTasks'[s].pc = "detect" /\ scTasks'[s] # scTasks[s] =>
            SlotHash(scTasks'[s].step,
                     Unwrap(scTasks'[s].requests[scTasks'[s].step].info))
              \notin reportedHashes'
     /\ \A s \in Tasks :
          /\ Settled(scTasks[s], "detect")
          /\ Unwrap(scTasks[s].answer).outcome = "new"
          /\ scTasks'[s] # scTasks[s]
          => LET k == scTasks[s].step
                 requests == scTasks[s].requests
             IN \A j \in (k + 1)..5 :
                  /\ requests[j].success
                  /\ SlotText(j, Unwrap(requests[j].info)) =
                       SlotText(k, Unwrap(requests[k].info))
                  => ~(scTasks'[s].pc = "detect" /\ scTasks'[s].step = j)]_vars

\* C32 witness: the sensorsInfo detector has reported the empty list, the
\* sensorsStatus request of the same refresh succeeded with an empty list
\* too, and the refresh is about to resume.
C32_Witness ==
  \E s \in Tasks :
    /\ Settled(scTasks[s], "detect")
    /\ Unwrap(scTasks[s].answer).outcome = "new"
    /\ scTasks[s].step = 4
    /\ scTasks[s].requests[5].success
    /\ Unwrap(scTasks[s].requests[4].info) = <<>>
    /\ Unwrap(scTasks[s].requests[5].info) = <<>>

\* C33: a step of a refresh, up to and with the step that ends it, leaves
\* the cached sync code as the sync check set it, whether requests failed,
\* the batch was rejected or a detector threw, and leaves the data slot of
\* every request that did not succeed as it was; and a sync check that
\* returns the cached code starts no refresh and changes no data.
C33_CodeKept ==
  [][/\ \A s \in Tasks :
          scTasks[s].pc \in {"fetch", "detect"} /\ scTasks'[s] # scTasks[s] =>
            /\ data'.syncCode = data.syncCode
            /\ \A k \in 1..5 :
                 (k \notin 1..Len(RequestsOf(s)) \/ ~RequestsOf(s)[k].success)
                   => data'[Slots[k]] = data[Slots[k]]
     /\ \A s \in Tasks :
          /\ Settled(scTasks[s], "syncCheck")
          /\ scTasks'[s] # scTasks[s]
          /\ Unwrap(scTasks[s].answer).payload = Some(data.syncCode)
          => scTasks'[s].pc = "idle" /\ data' = data]_vars

\* C33 witness: a refresh for "2-1-0" ended without the gateway
\* information, and the next sync check has returned "2-1-0" again.
C33_Witness ==
  /\ data.syncCode = "2-1-0"
  /\ data.gatewayInfo = Null
  /\ \E s \in Tasks :
       /\ Settled(scTasks[s], "syncCheck")
       /\ Unwrap(scTasks[s].answer).payload = Some("2-1-0")

\* C34: the cooldown is slept inside the guarded block: while an invocation
\* of the callback sleeps, isSyncing is set and the counter is at
\* maxLoginRetries; a step taken meanwhile lets no other invocation into
\* the block, starts no login(), keep-alive or sync check, and leaves the
\* counter alone unless it is the step that ends the sleep; and a sub-task
\* that was in flight when the cooldown began can still resume.
C34_CooldownGuarded ==
  /\ [](Sleeping => activity.isSyncing /\ failedLogins = maxLoginRetries)
  /\ [](Sleeping =>
          /\ \A k \in Tasks :
               Settled(kaTasks[k], "keepAlive") => ENABLED KeepAliveResume(k)
          /\ \A s \in Tasks :
               Settled(scTasks[s], "syncCheck") => ENABLED SyncCheckResume(s))
  /\ [][Sleeping =>
          /\ \A t \in Ticks : ticks[t].pc = "idle" => ticks'[t].pc = "idle"
          /\ \A k \in Tasks : kaTasks[k].pc = "idle" => kaTasks'[k].pc = "idle"
          /\ \A s \in Tasks : scTasks[s].pc = "idle" => scTasks'[s].pc = "idle"
          /\ Sleeping' => failedLogins' = failedLogins]_vars

\* C34 witness: the callback sleeps in an unauthenticated session with the
\* timer running, a free slot and isLoggingIn clear, so that only isSyncing
\* keeps the next tick from calling login(); a keep-alive that was started
\* before the cooldown holds its answer.
C34_Witness ==
  /\ Sleeping
  /\ interval
  /\ instance
  /\ ~authenticated
  /\ ~activity.isLoggingIn
  /\ FreeTick # 0
  /\ \E k \in Tasks : Settled(kaTasks[k], "keepAlive")

\* C35: with restored accessories of pairwise distinct uuids, the
\* accessories of the registry have pairwise distinct uuids at all times;
\* and the step that ends a refresh, for a uuid of the device list that was
\* not registered, registers the first occurrence and applies every further
\* occurrence in the list as an update.
C35_DistinctUuids ==
  /\ [](\A i, j \in 1..Len(accessories) :
          accessories[i].context.uuid = accessories[j].context.uuid => i = j)
  /\ [][\A s \in Tasks :
          (scTasks[s].pc \in {"fetch", "detect"} /\ scTasks'[s].pc = "idle"
           /\ registryLog' # registryLog) =>
            \A uuid \in Uuids(devices') \ RegisteredUuids(Registry) :
              LET made == SelectSeq(SubSeq(registryLog', Len(registryLog) + 1,
                                           Len(registryLog')),
                                    LAMBDA e : e.uuid = uuid)
                  times == Cardinality({i \in 1..Len(devices') :
                                          devices'[i].uuid = uuid})
              IN /\ Len(made) = times
                 /\ made[1].op = "register"
                 /\ \A i \in 2..Len(made) : made[i].op = "update"]_vars

\* C35 witness: the garage accessory was restored, and one refresh
\* registered the gateway and the front door and applied the second front
\* door entry of the list as an update.
C35_Witness ==
  /\ Len(accessories) = 3
  /\ accessories[1] = CachedGarage
  /\ Len(devices) = 3
  /\ devices[2].uuid = devices[3].uuid
  /\ [i \in 1..Len(registryLog) |-> registryLog[i].op] =
       <<"register", "register", "update">>

=============================================================================
